---------------------------- MODULE Spec2Model ----------------------------
(***************************************************************************)
(* Intent classification, refinement and intent-to-tool routing of the     *)
(* Todo AI Chatbot (backend/core/agents/intent_classifier.py and           *)
(* backend/core/agents/tool_wiring.py).                                    *)
(*                                                                         *)
(* A text is a sequence of tokens.  A token is a maximal piece of text     *)
(* that no pattern of the program can split: a word stem ("add", "task"),  *)
(* a suffix ("s"), a single digit, one blank " ", one newline "\n", or one *)
(* punctuation mark.  Adjacent word tokens spell one word ("task","s" is   *)
(* "tasks"), so word boundaries, prefixes and plural forms behave as they  *)
(* do on characters.  Floating point scores are kept as integers in        *)
(* tenths (2.0 is 20, 0.5 is 5, 0.1 is 1).                                 *)
(***************************************************************************)
EXTENDS Integers, Sequences, FiniteSets, TLC

(***************************************************************************)
(* Tokens and Python string operations                                     *)
(***************************************************************************)
SP == " "
NL == "\n"
DOT == "."
DASH == "-"
SLASH == "/"

Digits == {"0", "1", "2", "3", "4", "5", "6", "7", "8", "9"}

\* \s of the re module
IsSpace(t) == t \in {SP, NL}

\* characters that are neither \w nor \s
IsPunct(t) == t \in {DOT, DASH, SLASH}

\* \w of the re module: every token that is not blank and not punctuation
IsWord(t) == ~IsSpace(t) /\ ~IsPunct(t)

\* str.lower() on one token; the capitalised tokens of the vocabulary
LowerTok(t) ==
  CASE t = "Add" -> "add"
    [] t = "Milk" -> "milk"
    [] OTHER -> t

\* str.lower()
Lower(s) == [i \in 1..Len(s) |-> LowerTok(s[i])]

RECURSIVE LStrip(_)
LStrip(s) == IF s # <<>> /\ IsSpace(Head(s)) THEN LStrip(Tail(s)) ELSE s

RECURSIVE RStrip(_)
RStrip(s) ==
  IF s # <<>> /\ IsSpace(s[Len(s)]) THEN RStrip(SubSeq(s, 1, Len(s) - 1)) ELSE s

\* str.strip()
Strip(s) == RStrip(LStrip(s))

\* str.replace(" ", "-")
ReplaceSpaceByDash(s) == [i \in 1..Len(s) |-> IF s[i] = SP THEN DASH ELSE s[i]]

RECURSIVE WordEnd(_, _)
\* the last position of the run of non-blank tokens that holds position a
WordEnd(s, a) == IF a < Len(s) /\ ~IsSpace(s[a + 1]) THEN WordEnd(s, a + 1) ELSE a

\* set(text.split()): the maximal runs of non-blank tokens
SplitWords(s) ==
  { SubSeq(s, a, WordEnd(s, a)) :
      a \in { a \in 1..Len(s) : ~IsSpace(s[a]) /\ (a = 1 \/ IsSpace(s[a - 1])) } }

(***************************************************************************)
(* Regular expressions (the subset of the re syntax the program uses)      *)
(***************************************************************************)
Inf == 0 - 1

\* a literal: the tokens w in this order (re.IGNORECASE: compared lower-cased)
Lit(w) == [k |-> "lit", w |-> w]
\* one word, e.g. add
W(t) == Lit(<<t>>)
\* .  (any character but a newline)
AnyCh == [k |-> "any"]
\* \s
Ws == [k |-> "ws"]
\* \w
Wd == [k |-> "wd"]
\* \d
Dg == [k |-> "dg"]
\* [/-]
SlashDash == [k |-> "sd"]
\* \b
B == [k |-> "b"]
\* $  (the end of the string, or just before a newline that ends it)
End == [k |-> "end"]
\* r1 r2 ... (concatenation)
Cat(rs) == [k |-> "cat", rs |-> rs]
\* r1 | r2 | ... (ordered alternatives)
Alt(rs) == [k |-> "alt", rs |-> rs]
\* r{lo,hi}, greedy or lazy; hi = Inf for no upper limit
Rep(r, lo, hi, greedy) == [k |-> "rep", r |-> r, lo |-> lo, hi |-> hi, greedy |-> greedy]
Star(r) == Rep(r, 0, Inf, TRUE)
Plus(r) == Rep(r, 1, Inf, TRUE)
Opt(r) == Rep(r, 0, 1, TRUE)
LazyStar(r) == Rep(r, 0, Inf, FALSE)
LazyPlus(r) == Rep(r, 1, Inf, FALSE)
\* ( r ) capturing group number n
Grp(n, r) == [k |-> "grp", n |-> n, r |-> r]
\* (?! r )
NotAhead(r) == [k |-> "not", r |-> r]

\* (w1|w2|...) where every alternative is a single token: at most one of
\* them matches at a position, so their order does not matter
Words(ws) == [k |-> "words", ws |-> {ws[i] : i \in 1..Len(ws)}]

NoSpan == <<0, 0>>
NoGroups == <<NoSpan, NoSpan>>

\* \b at position i of s (between s[i-1] and s[i])
AtBoundary(s, i) ==
  LET before == i > 1 /\ IsWord(s[i - 1])
      after == i <= Len(s) /\ IsWord(s[i])
  IN  before # after

LitAt(w, s, i) ==
  /\ i + Len(w) - 1 <= Len(s)
  /\ \A j \in 1..Len(w) : LowerTok(s[i + j - 1]) = w[j]

RECURSIVE Match(_, _, _, _)
RECURSIVE MatchCat(_, _, _, _)
RECURSIVE MatchAlt(_, _, _, _, _)
RECURSIVE MatchEach(_, _, _)

\* The ways r matches s from position i on, in the order the backtracking
\* matcher of the re module tries them: a sequence of [e, g], e the position
\* after the match and g the spans of the capturing groups.
Match(r, s, i, g) ==
  CASE r.k = "cat" -> MatchCat(r.rs, 1, s, << [e |-> i, g |-> g] >>)
    [] r.k = "b" -> IF AtBoundary(s, i) THEN << [e |-> i, g |-> g] >> ELSE << >>
    [] r.k = "words" ->
         IF i <= Len(s) /\ LowerTok(s[i]) \in r.ws
         THEN << [e |-> i + 1, g |-> g] >> ELSE << >>
    [] r.k = "lit" ->
         IF LitAt(r.w, s, i) THEN << [e |-> i + Len(r.w), g |-> g] >> ELSE << >>
    [] r.k = "grp" ->
         LET inner == Match(r.r, s, i, g)
         IN  [j \in 1..Len(inner) |->
                [e |-> inner[j].e, g |-> [inner[j].g EXCEPT ![r.n] = <<i, inner[j].e>>]]]
    [] r.k = "alt" -> MatchAlt(r.rs, 1, s, i, g)
    [] r.k = "rep" ->
         LET stop == IF r.lo <= 0 THEN << [e |-> i, g |-> g] >> ELSE << >>
             rest == Rep(r.r, IF r.lo > 0 THEN r.lo - 1 ELSE 0,
                         IF r.hi = Inf THEN Inf ELSE r.hi - 1, r.greedy)
             first == SelectSeq(Match(r.r, s, i, g), LAMBDA x : x.e > i)
             more == IF r.hi = 0 THEN << >> ELSE MatchEach(rest, s, first)
         IN  IF r.greedy THEN more \o stop ELSE stop \o more
    [] r.k = "any" ->
         IF i <= Len(s) /\ s[i] # NL THEN << [e |-> i + 1, g |-> g] >> ELSE << >>
    [] r.k = "ws" ->
         IF i <= Len(s) /\ IsSpace(s[i]) THEN << [e |-> i + 1, g |-> g] >> ELSE << >>
    [] r.k = "wd" ->
         IF i <= Len(s) /\ IsWord(s[i]) THEN << [e |-> i + 1, g |-> g] >> ELSE << >>
    [] r.k = "dg" ->
         IF i <= Len(s) /\ s[i] \in Digits THEN << [e |-> i + 1, g |-> g] >> ELSE << >>
    [] r.k = "sd" ->
         IF i <= Len(s) /\ s[i] \in {SLASH, DASH}
         THEN << [e |-> i + 1, g |-> g] >> ELSE << >>
    [] r.k = "end" ->
         IF i = Len(s) + 1 \/ (i = Len(s) /\ s[i] = NL)
         THEN << [e |-> i, g |-> g] >> ELSE << >>
    [] r.k = "not" ->
         IF Match(r.r, s, i, g) = << >> THEN << [e |-> i, g |-> g] >> ELSE << >>

\* r matched after each of the partial matches xs, in their order
MatchEach(r, s, xs) ==
  IF xs = << >> THEN << >>
  ELSE Match(r, s, Head(xs).e, Head(xs).g) \o MatchEach(r, s, Tail(xs))

\* rs[n], rs[n+1], ... matched one after the other, after the partial matches xs
MatchCat(rs, n, s, xs) ==
  IF n > Len(rs) \/ xs = << >> THEN xs
  ELSE MatchCat(rs, n + 1, s, MatchEach(rs[n], s, xs))

\* rs[n], rs[n+1], ... tried in this order at position i
MatchAlt(rs, n, s, i, g) ==
  IF n > Len(rs) THEN << >>
  ELSE Match(rs[n], s, i, g) \o MatchAlt(rs, n + 1, s, i, g)

NoMatch == [found |-> FALSE, b |-> 0, e |-> 0, g |-> NoGroups]

RECURSIVE SearchFrom(_, _, _)
\* pattern.search(s, pos): the first match at the leftmost position >= pos
SearchFrom(r, s, pos) ==
  IF pos > Len(s) + 1 THEN NoMatch
  ELSE LET ms == Match(r, s, pos, NoGroups)
       IN  IF ms # << >>
           THEN [found |-> TRUE, b |-> pos, e |-> ms[1].e, g |-> ms[1].g]
           ELSE SearchFrom(r, s, pos + 1)

\* re.search(pattern, s)
Search(r, s) == SearchFrom(r, s, 1)

RECURSIVE FindAllFrom(_, _, _)
\* the successive non-overlapping matches of re.findall / re.finditer
FindAllFrom(r, s, pos) ==
  LET m == SearchFrom(r, s, pos)
  IN  IF ~m.found THEN << >>
      ELSE << m >> \o FindAllFrom(r, s, IF m.e > m.b THEN m.e ELSE m.b + 1)

FindAll(r, s) == FindAllFrom(r, s, 1)

\* the text of a group of a match ('' when the group did not take part)
GroupText(s, span) ==
  IF span = NoSpan THEN << >> ELSE SubSeq(s, span[1], span[2] - 1)

(***************************************************************************)
(* The pattern tables of IntentClassifier.__init__, the heuristic title    *)
(* pattern of _extract_entities and the title pattern of _map_add_task.    *)
(* re is the expression, groups its number of capturing groups and words   *)
(* the set re.findall(r'\w+', pattern) of the pattern's source text.       *)
(***************************************************************************)
\* \b(add|create|make|new|establish|setup)\b.*\b(task|todo|item|thing|note|reminder)\b
AddPattern1 ==
  [re |-> Cat(<<B, Grp(1, Words(<<"add", "create", "make", "new", "establish", "setup">>)), B,
           Star(AnyCh), B, Grp(2, Words(<<"task", "todo", "item", "thing", "note",
           "reminder">>)), B>>),
   groups |-> 2,
   words |-> {<<"add">>, <<"b">>, <<"create">>, <<"establish">>, <<"item">>, <<"make">>,
           <<"new">>, <<"note">>, <<"reminder">>, <<"setup">>, <<"task">>, <<"thing">>,
           <<"todo">>}]

\* \b(task|todo|item|thing|note|reminder)\b.*\b(add|create|make|new|establish|setup)\b
AddPattern2 ==
  [re |-> Cat(<<B, Grp(1, Words(<<"task", "todo", "item", "thing", "note", "reminder">>)), B,
           Star(AnyCh), B, Grp(2, Words(<<"add", "create", "make", "new", "establish",
           "setup">>)), B>>),
   groups |-> 2,
   words |-> {<<"add">>, <<"b">>, <<"create">>, <<"establish">>, <<"item">>, <<"make">>,
           <<"new">>, <<"note">>, <<"reminder">>, <<"setup">>, <<"task">>, <<"thing">>,
           <<"todo">>}]

\* \b(remind me to|need to|want to|should|must|have to)\b
AddPattern3 ==
  [re |-> Cat(<<B, Grp(1, Alt(<<Lit(<<"remind", SP, "me", SP, "to">>), Lit(<<"need", SP,
           "to">>), Lit(<<"want", SP, "to">>), W("should"), W("must"), Lit(<<"have", SP,
           "to">>)>>)), B>>),
   groups |-> 1,
   words |-> {<<"b">>, <<"have">>, <<"me">>, <<"must">>, <<"need">>, <<"remind">>,
           <<"should">>, <<"to">>, <<"want">>}]

\* \b(make a note|write down|put in my list)\b
AddPattern4 ==
  [re |-> Cat(<<B, Grp(1, Alt(<<Lit(<<"make", SP, "a", SP, "note">>), Lit(<<"write", SP,
           "down">>), Lit(<<"put", SP, "in", SP, "my", SP, "list">>)>>)), B>>),
   groups |-> 1,
   words |-> {<<"a">>, <<"b">>, <<"down">>, <<"in">>, <<"list">>, <<"make">>, <<"my">>,
           <<"note">>, <<"put">>, <<"write">>}]

\* \b(show|list|view|see|display|fetch|get)\b.*\b(task|todo|item|things|notes|reminders)\b
ListPattern1 ==
  [re |-> Cat(<<B, Grp(1, Words(<<"show", "list", "view", "see", "display", "fetch", "get">>)),
           B, Star(AnyCh), B, Grp(2, Words(<<"task", "todo", "item", "things", "notes",
           "reminders">>)), B>>),
   groups |-> 2,
   words |-> {<<"b">>, <<"display">>, <<"fetch">>, <<"get">>, <<"item">>, <<"list">>,
           <<"notes">>, <<"reminders">>, <<"see">>, <<"show">>, <<"task">>, <<"things">>,
           <<"todo">>, <<"view">>}]

\* \b(what are|do i have|show me|display|list)\b.*\b(task|todo|item|things|notes|reminders)\b
ListPattern2 ==
  [re |-> Cat(<<B, Grp(1, Alt(<<Lit(<<"what", SP, "are">>), Lit(<<"do", SP, "i", SP, "have">>),
           Lit(<<"show", SP, "me">>), W("display"), W("list")>>)), B, Star(AnyCh), B, Grp(2,
           Words(<<"task", "todo", "item", "things", "notes", "reminders">>)), B>>),
   groups |-> 2,
   words |-> {<<"are">>, <<"b">>, <<"display">>, <<"do">>, <<"have">>, <<"i">>, <<"item">>,
           <<"list">>, <<"me">>, <<"notes">>, <<"reminders">>, <<"show">>, <<"task">>,
           <<"things">>, <<"todo">>, <<"what">>}]

\* \b(my tasks|my todos|my list|current tasks)\b
ListPattern3 ==
  [re |-> Cat(<<B, Grp(1, Alt(<<Lit(<<"my", SP, "task", "s">>), Lit(<<"my", SP, "todos">>),
           Lit(<<"my", SP, "list">>), Lit(<<"current", SP, "task", "s">>)>>)), B>>),
   groups |-> 1,
   words |-> {<<"b">>, <<"current">>, <<"list">>, <<"my">>, <<"task", "s">>, <<"todos">>}]

\* \b(mark|complete|finish|done|check off|tick off)\b.*\b(task|todo|item|thing)\b
CompletePattern1 ==
  [re |-> Cat(<<B, Grp(1, Alt(<<W("mark"), W("complete"), W("finish"), W("done"),
           Lit(<<"check", SP, "off">>), Lit(<<"tick", SP, "off">>)>>)), B, Star(AnyCh), B,
           Grp(2, Words(<<"task", "todo", "item", "thing">>)), B>>),
   groups |-> 2,
   words |-> {<<"b">>, <<"check">>, <<"complete">>, <<"done">>, <<"finish">>, <<"item">>,
           <<"mark">>, <<"off">>, <<"task">>, <<"thing">>, <<"tick">>, <<"todo">>}]

\* \b(task|todo|item|thing)\b.*\b(mark|complete|finish|done|as done)\b
CompletePattern2 ==
  [re |-> Cat(<<B, Grp(1, Words(<<"task", "todo", "item", "thing">>)), B, Star(AnyCh), B,
           Grp(2, Alt(<<W("mark"), W("complete"), W("finish"), W("done"), Lit(<<"as", SP,
           "done">>)>>)), B>>),
   groups |-> 2,
   words |-> {<<"as">>, <<"b">>, <<"complete">>, <<"done">>, <<"finish">>, <<"item">>,
           <<"mark">>, <<"task">>, <<"thing">>, <<"todo">>}]

\* \b(is done|finished|completed|checked|ticked)\b
CompletePattern3 ==
  [re |-> Cat(<<B, Grp(1, Alt(<<Lit(<<"is", SP, "done">>), W("finished"), W("completed"),
           W("checked"), W("ticked")>>)), B>>),
   groups |-> 1,
   words |-> {<<"b">>, <<"checked">>, <<"completed">>, <<"done">>, <<"finished">>, <<"is">>,
           <<"ticked">>}]

\* \b(i'm done with|i finished|completed|done with)\b
CompletePattern4 ==
  [re |-> Cat(<<B, Grp(1, Alt(<<Lit(<<"i", "'", "m", SP, "done", SP, "with">>), Lit(<<"i", SP,
           "finished">>), W("completed"), Lit(<<"done", SP, "with">>)>>)), B>>),
   groups |-> 1,
   words |-> {<<"b">>, <<"completed">>, <<"done">>, <<"finished">>, <<"i">>, <<"m">>,
           <<"with">>}]

\* \b(delete|remove|erase|cancel|eliminate|get rid of)\b.*\b(task|todo|item|thing)\b
DeletePattern1 ==
  [re |-> Cat(<<B, Grp(1, Alt(<<W("delete"), W("remove"), W("erase"), W("cancel"),
           W("eliminate"), Lit(<<"get", SP, "rid", SP, "of">>)>>)), B, Star(AnyCh), B, Grp(2,
           Words(<<"task", "todo", "item", "thing">>)), B>>),
   groups |-> 2,
   words |-> {<<"b">>, <<"cancel">>, <<"delete">>, <<"eliminate">>, <<"erase">>, <<"get">>,
           <<"item">>, <<"of">>, <<"remove">>, <<"rid">>, <<"task">>, <<"thing">>, <<"todo">>}]

\* \b(task|todo|item|thing)\b.*\b(delete|remove|erase|cancel|eliminate|get rid of)\b
DeletePattern2 ==
  [re |-> Cat(<<B, Grp(1, Words(<<"task", "todo", "item", "thing">>)), B, Star(AnyCh), B,
           Grp(2, Alt(<<W("delete"), W("remove"), W("erase"), W("cancel"), W("eliminate"),
           Lit(<<"get", SP, "rid", SP, "of">>)>>)), B>>),
   groups |-> 2,
   words |-> {<<"b">>, <<"cancel">>, <<"delete">>, <<"eliminate">>, <<"erase">>, <<"get">>,
           <<"item">>, <<"of">>, <<"remove">>, <<"rid">>, <<"task">>, <<"thing">>, <<"todo">>}]

\* \b(update|change|modify|edit|adjust|alter|redo|revise)\b.*\b(task|todo|item|thing)\b
UpdatePattern1 ==
  [re |-> Cat(<<B, Grp(1, Words(<<"update", "change", "modify", "edit", "adjust", "alter",
           "redo", "revise">>)), B, Star(AnyCh), B, Grp(2, Words(<<"task", "todo", "item",
           "thing">>)), B>>),
   groups |-> 2,
   words |-> {<<"adjust">>, <<"alter">>, <<"b">>, <<"change">>, <<"edit">>, <<"item">>,
           <<"modify">>, <<"redo">>, <<"revise">>, <<"task">>, <<"thing">>, <<"todo">>,
           <<"update">>}]

\* \b(task|todo|item|thing)\b.*\b(update|change|modify|edit|adjust|alter|redo|revise)\b
UpdatePattern2 ==
  [re |-> Cat(<<B, Grp(1, Words(<<"task", "todo", "item", "thing">>)), B, Star(AnyCh), B,
           Grp(2, Words(<<"update", "change", "modify", "edit", "adjust", "alter", "redo",
           "revise">>)), B>>),
   groups |-> 2,
   words |-> {<<"adjust">>, <<"alter">>, <<"b">>, <<"change">>, <<"edit">>, <<"item">>,
           <<"modify">>, <<"redo">>, <<"revise">>, <<"task">>, <<"thing">>, <<"todo">>,
           <<"update">>}]

\* \b(rename|change to|modify to|update to)\b
UpdatePattern3 ==
  [re |-> Cat(<<B, Grp(1, Alt(<<W("rename"), Lit(<<"change", SP, "to">>), Lit(<<"modify", SP,
           "to">>), Lit(<<"update", SP, "to">>)>>)), B>>),
   groups |-> 1,
   words |-> {<<"b">>, <<"change">>, <<"modify">>, <<"rename">>, <<"to">>, <<"update">>}]

\* \b(help|support|assistance|instruction|how to|what can you do|can you|could you)\b
HelpPattern1 ==
  [re |-> Cat(<<B, Grp(1, Alt(<<W("help"), W("support"), W("assistance"), W("instruction"),
           Lit(<<"how", SP, "to">>), Lit(<<"what", SP, "can", SP, "you", SP, "do">>),
           Lit(<<"can", SP, "you">>), Lit(<<"could", SP, "you">>)>>)), B>>),
   groups |-> 1,
   words |-> {<<"assistance">>, <<"b">>, <<"can">>, <<"could">>, <<"do">>, <<"help">>,
           <<"how">>, <<"instruction">>, <<"support">>, <<"to">>, <<"what">>, <<"you">>}]

\* \b(tutorial|guide|assist|aid|manual)\b
HelpPattern2 ==
  [re |-> Cat(<<B, Grp(1, Words(<<"tutorial", "guide", "assist", "aid", "manual">>)), B>>),
   groups |-> 1,
   words |-> {<<"aid">>, <<"assist">>, <<"b">>, <<"guide">>, <<"manual">>, <<"tutorial">>}]

\* (?:add|create|make|new)\s+(?:a\s+)?(?:task|todo|note|item|reminder)\s+to\s+(.*?)(?:\s+and|\s+for|\s+by|\s+on|\s+at|\.|$)
TitlePattern1 ==
  [re |-> Cat(<<Words(<<"add", "create", "make", "new">>), Plus(Ws), Opt(Cat(<<W("a"),
           Plus(Ws)>>)), Words(<<"task", "todo", "note", "item", "reminder">>), Plus(Ws),
           W("to"), Plus(Ws), Grp(1, LazyStar(AnyCh)), Alt(<<Cat(<<Plus(Ws), W("and")>>),
           Cat(<<Plus(Ws), W("for")>>), Cat(<<Plus(Ws), W("by")>>), Cat(<<Plus(Ws), W("on")>>),
           Cat(<<Plus(Ws), W("at")>>), W(DOT), End>>)>>),
   groups |-> 1]

\* (?:remind me to|need to|want to)\s+(.*?)(?:\s+and|\s+for|\s+by|\s+on|\s+at|\.|$)
TitlePattern2 ==
  [re |-> Cat(<<Alt(<<Lit(<<"remind", SP, "me", SP, "to">>), Lit(<<"need", SP, "to">>),
           Lit(<<"want", SP, "to">>)>>), Plus(Ws), Grp(1, LazyStar(AnyCh)),
           Alt(<<Cat(<<Plus(Ws), W("and")>>), Cat(<<Plus(Ws), W("for")>>), Cat(<<Plus(Ws),
           W("by")>>), Cat(<<Plus(Ws), W("on")>>), Cat(<<Plus(Ws), W("at")>>), W(DOT),
           End>>)>>),
   groups |-> 1]

\* (?:update|change|modify|edit|rename)\s+(?:task|todo|item)\s+(?:named\s+|called\s+|titled\s+)?(.*)
TitlePattern3 ==
  [re |-> Cat(<<Words(<<"update", "change", "modify", "edit", "rename">>), Plus(Ws),
           Words(<<"task", "todo", "item">>), Plus(Ws), Opt(Alt(<<Cat(<<W("named"),
           Plus(Ws)>>), Cat(<<W("called"), Plus(Ws)>>), Cat(<<W("titled"), Plus(Ws)>>)>>)),
           Grp(1, Star(AnyCh))>>),
   groups |-> 1]

\* \b(\d{4}-\d{2}-\d{2})\b
DatePattern1 ==
  [re |-> Cat(<<B, Grp(1, Cat(<<Rep(Dg, 4, 4, TRUE), W(DASH), Rep(Dg, 2, 2, TRUE), W(DASH),
           Rep(Dg, 2, 2, TRUE)>>)), B>>),
   groups |-> 1]

\* \b(\d{1,2}[/-]\d{1,2}[/-]\d{4})\b
DatePattern2 ==
  [re |-> Cat(<<B, Grp(1, Cat(<<Rep(Dg, 1, 2, TRUE), SlashDash, Rep(Dg, 1, 2, TRUE), SlashDash,
           Rep(Dg, 4, 4, TRUE)>>)), B>>),
   groups |-> 1]

\* \b(today|tomorrow|yesterday|tonight|now)\b
DatePattern3 ==
  [re |-> Cat(<<B, Grp(1, Words(<<"today", "tomorrow", "yesterday", "tonight", "now">>)), B>>),
   groups |-> 1]

\* \b(next\s+(?:week|month|year|monday|tuesday|wednesday|thursday|friday|saturday|sunday))\b
DatePattern4 ==
  [re |-> Cat(<<B, Grp(1, Cat(<<W("next"), Plus(Ws), Words(<<"week", "month", "year", "monday",
           "tuesday", "wednesday", "thursday", "friday", "saturday", "sunday">>)>>)), B>>),
   groups |-> 1]

\* \b(this\s+(?:week|month|weekend))\b
DatePattern5 ==
  [re |-> Cat(<<B, Grp(1, Cat(<<W("this"), Plus(Ws), Words(<<"week", "month", "weekend">>)>>)),
           B>>),
   groups |-> 1]

\* \b(urgent|high|top|critical|important|medium|normal|low|lowest)\b
PriorityPattern1 ==
  [re |-> Cat(<<B, Grp(1, Words(<<"urgent", "high", "top", "critical", "important", "medium",
           "normal", "low", "lowest">>)), B>>),
   groups |-> 1]

\* \b(priority\s+(?:is\s+)?(high|medium|low|urgent))\b
PriorityPattern2 ==
  [re |-> Cat(<<B, Grp(1, Cat(<<W("priority"), Plus(Ws), Opt(Cat(<<W("is"), Plus(Ws)>>)),
           Grp(2, Words(<<"high", "medium", "low", "urgent">>))>>)), B>>),
   groups |-> 2]

\* \b(in\s+(?:work|personal|shopping|health|finance|home|school|other))\b
CategoryPattern1 ==
  [re |-> Cat(<<B, Grp(1, Cat(<<W("in"), Plus(Ws), Words(<<"work", "personal", "shopping",
           "health", "finance", "home", "school", "other">>)>>)), B>>),
   groups |-> 1]

\* \b(for\s+(?:work|personal|shopping|health|finance|home|school|other))\b
CategoryPattern2 ==
  [re |-> Cat(<<B, Grp(1, Cat(<<W("for"), Plus(Ws), Words(<<"work", "personal", "shopping",
           "health", "finance", "home", "school", "other">>)>>)), B>>),
   groups |-> 1]

\* \b(category\s+(?:is\s+)?(work|personal|shopping|health|finance|home|school|other))\b
CategoryPattern3 ==
  [re |-> Cat(<<B, Grp(1, Cat(<<W("category"), Plus(Ws), Opt(Cat(<<W("is"), Plus(Ws)>>)),
           Grp(2, Words(<<"work", "personal", "shopping", "health", "finance", "home",
           "school", "other">>))>>)), B>>),
   groups |-> 2]

\* (?:add|create|make|new)\s+(?:a\s+)?(?!task|todo|item|note|reminder)(\w+(?:\s+\w+)*?)(?:\s+and|\s+for|\s+by|\s+on|\s+at|\.|$)
TitleFallbackPattern ==
  [re |-> Cat(<<Words(<<"add", "create", "make", "new">>), Plus(Ws), Opt(Cat(<<W("a"),
           Plus(Ws)>>)), NotAhead(Words(<<"task", "todo", "item", "note", "reminder">>)),
           Grp(1, Cat(<<Plus(Wd), LazyStar(Cat(<<Plus(Ws), Plus(Wd)>>))>>)),
           Alt(<<Cat(<<Plus(Ws), W("and")>>), Cat(<<Plus(Ws), W("for")>>), Cat(<<Plus(Ws),
           W("by")>>), Cat(<<Plus(Ws), W("on")>>), Cat(<<Plus(Ws), W("at")>>), W(DOT),
           End>>)>>),
   groups |-> 1]

\* (?:add|create|make)\s+(?:a\s+)?(?:task|todo|note|item)\s+to\s+(.+?)(?:\.|$)
AddTaskTitlePattern ==
  [re |-> Cat(<<Words(<<"add", "create", "make">>), Plus(Ws), Opt(Cat(<<W("a"), Plus(Ws)>>)),
           Words(<<"task", "todo", "note", "item">>), Plus(Ws), W("to"), Plus(Ws), Grp(1,
           LazyPlus(AnyCh)), Alt(<<W(DOT), End>>)>>),
   groups |-> 1]

\* self.intent_patterns as built by __init__ (a dict keeps insertion order)
InitialIntentPatterns ==
  << [intent |-> "add_task", patterns |-> <<AddPattern1, AddPattern2, AddPattern3, AddPattern4>>],
     [intent |-> "list_tasks", patterns |-> <<ListPattern1, ListPattern2, ListPattern3>>],
     [intent |-> "complete_task",
      patterns |-> <<CompletePattern1, CompletePattern2, CompletePattern3, CompletePattern4>>],
     [intent |-> "delete_task", patterns |-> <<DeletePattern1, DeletePattern2>>],
     [intent |-> "update_task", patterns |-> <<UpdatePattern1, UpdatePattern2, UpdatePattern3>>],
     [intent |-> "help", patterns |-> <<HelpPattern1, HelpPattern2>>] >>

\* self.entity_patterns as built by __init__
InitialEntityPatterns ==
  << [entity_type |-> "title", patterns |-> <<TitlePattern1, TitlePattern2, TitlePattern3>>],
     [entity_type |-> "date",
      patterns |-> <<DatePattern1, DatePattern2, DatePattern3, DatePattern4, DatePattern5>>],
     [entity_type |-> "priority", patterns |-> <<PriorityPattern1, PriorityPattern2>>],
     [entity_type |-> "category",
      patterns |-> <<CategoryPattern1, CategoryPattern2, CategoryPattern3>>] >>

\* class Intent
Intents ==
  {"add_task", "list_tasks", "complete_task", "delete_task", "update_task", "help", "unknown"}

(***************************************************************************)
(* Python values.  Every value carries its type, so that a str, a list and *)
(* a tuple are never confused: a str is its sequence of tokens.            *)
(***************************************************************************)
None == [t |-> "none", v |-> << >>]
Str(s) == [t |-> "str", v |-> s]
Tuple(xs) == [t |-> "tuple", v |-> xs]
List(xs) == [t |-> "list", v |-> xs]
\* a fixed text of the program that is only shown to the user
Text(m) == [t |-> "text", v |-> m]
\* an f-string: the fixed part and the value formatted into it
Format(m, x) == [t |-> "fstr", v |-> <<m, x>>]

IsStr(x) == x.t = "str"

\* bool(x) for a str, list, tuple or None
Truthy(x) == x # None /\ x.v # << >>

\* an empty dict
EmptyDict == [key \in {} |-> None]

\* d.get(key, default)
Get(d, key, default) == IF key \in DOMAIN d THEN d[key] ELSE default

\* d[key] = value
Put(d, key, value) == [x \in DOMAIN d \cup {key} |-> IF x = key THEN value ELSE d[x]]

(***************************************************************************)
(* State                                                                   *)
(***************************************************************************)
VARIABLES
  intent_patterns,    \* classifier.intent_patterns
  entity_patterns,    \* classifier.entity_patterns
  pc,                 \* the position of the current call
  user_input,         \* the text handed to the current call
  user_id,            \* the caller's user id
  classified,         \* what IntentClassifier.classify_intent returned
  classified_intent,  \* what refine_intent_with_entities returned
  refined_again,      \* a second refinement of classified_intent
  mapping_result,     \* what route_to_tool returned
  raised,             \* TRUE when an exception left route_to_tool
  first_call,         \* the text and results of the first classification of a run
  calls,              \* the number of calls of classify_intent of a run
  intent_scores,      \* the local intent_scores of the last classify_intent
  tool_called,        \* the tool execute_mapped_tool handed the parameters to
  execution_result,   \* what execute_mapped_tool returned
  callers,            \* the concurrent callers of route_to_tool
  tasks,              \* the rows of the task table
  response,           \* the answer to the last request to /api/tasks
  _tasks,             \* TaskManager._tasks
  _next_id,           \* TaskManager._next_id
  last_call,          \* the last call of a TaskManager method and what it did
  users,              \* the rows of the user table
  requests            \* the requests to /api/auth/register in flight

\* the variables that the classifier and the router by themselves leave alone
store_vars == << _tasks, _next_id, last_call, users, requests >>
rest_vars == << tool_called, execution_result, callers, tasks, response, store_vars >>

vars ==
  << intent_patterns, entity_patterns, pc, user_input, user_id, classified,
     classified_intent, refined_again, mapping_result, raised, first_call, calls,
     intent_scores, rest_vars >>

(***************************************************************************)
(* IntentClassifier                                                        *)
(***************************************************************************)
\* the scores and confidences, in tenths
OverlapWeight == 5
Threshold == 1
\* a bug: a pattern match that weighs no more than the threshold
LightMatchWeight == Threshold
MatchWeight == 20
MaxConfidence == 10
AddTaskConfidence == 8
UpdateTaskConfidence == 7

RECURSIVE SumOver(_, _, _)
\* the sum of Term(patterns[i], text) over the patterns, in their order
SumOver(Term(_, _), patterns, text) ==
  IF patterns = << >> THEN 0
  ELSE Term(Head(patterns), text) + SumOver(Term, Tail(patterns), text)

\* len(re.findall(pattern, text)) * 2.0
MatchTerm(pattern, text) == Len(FindAll(pattern.re, text)) * MatchWeight

\* overlap * 0.5 for a pattern that is found in the text, else nothing
OverlapTerm(pattern, text) ==
  IF Search(pattern.re, text).found
  THEN Cardinality(pattern.words \cap SplitWords(text)) * OverlapWeight
  ELSE 0

calculate_intent_score(text, patterns) ==
  SumOver(MatchTerm, patterns, text) + SumOver(OverlapTerm, patterns, text)

\* what re.findall returns for one match: the group for a pattern with one
\* group, the tuple of the groups for a pattern with several
FindAllItem(pattern, text, m) ==
  IF pattern.groups = 1 THEN Str(GroupText(text, m.g[1]))
  ELSE Tuple([n \in 1..pattern.groups |-> Str(GroupText(text, m.g[n]))])

\* match.lower() if isinstance(match, str) else match
LowerIfStr(x) == IF IsStr(x) THEN Str(Lower(x.v)) ELSE x

\* the matches of re.findall, lower-cased unless the entity is a date
ProcessedMatches(entity_type, pattern, text, found) ==
  [j \in 1..Len(found) |->
     IF entity_type # "date"
     THEN LowerIfStr(FindAllItem(pattern, text, found[j]))
     ELSE FindAllItem(pattern, text, found[j])]

\* a bug: the list of the matches even when there is one match only
AllMatches(processed_matches) == List(processed_matches)

\* processed_matches[0] if len(processed_matches) == 1 else processed_matches
FirstOrAll(processed_matches) ==
  IF Len(processed_matches) = 1 THEN processed_matches[1] ELSE List(processed_matches)

RECURSIVE FirstMatching(_, _, _)
RECURSIVE FirstMatchingFrom(_, _, _, _)

\* one turn of the loop over the patterns: found is what re.findall gave
\* for the first of them
FirstMatchingFrom(entity_type, patterns, text, found) ==
  IF found # << >>
  THEN FirstOrAll(ProcessedMatches(entity_type, Head(patterns), text, found))
  ELSE FirstMatching(entity_type, Tail(patterns), text)

\* the value of the first pattern of an entity type that matches, or None
FirstMatching(entity_type, patterns, text) ==
  IF patterns = << >> THEN None
  ELSE FirstMatchingFrom(entity_type, patterns, text, FindAll(Head(patterns).re, text))

\* entities[entity_type] = value, when a pattern of the type matched
PutIfFound(entities, entity_type, value) ==
  IF value = None THEN entities ELSE Put(entities, entity_type, value)

RECURSIVE ExtractFrom(_, _)
\* the loop over self.entity_patterns.items()
ExtractFrom(table, text) ==
  IF table = << >> THEN EmptyDict
  ELSE PutIfFound(ExtractFrom(SubSeq(table, 1, Len(table) - 1), text),
                  table[Len(table)].entity_type,
                  FirstMatching(table[Len(table)].entity_type,
                                table[Len(table)].patterns, text))

\* the special handling of task titles: title_match is the heuristic match
TitleFallback(entities, text, title_match) ==
  IF "title" \notin DOMAIN entities /\ title_match.found
  THEN Put(entities, "title", Str(Strip(GroupText(text, title_match.g[1]))))
  ELSE entities

extract_entities(text) ==
  TitleFallback(ExtractFrom(entity_patterns, text), text,
                Search(TitleFallbackPattern.re, text))

RECURSIVE BestIndexLast(_, _)
\* a bug: the last key with the largest score
BestIndexLast(scores, n) ==
  IF n = 1 THEN 1
  ELSE LET b == BestIndexLast(scores, n - 1)
       IN  IF scores[n] >= scores[b] THEN n ELSE b

RECURSIVE BestIndex(_, _)
\* max(intent_scores, key=intent_scores.get): the first key with the largest score
BestIndex(scores, n) ==
  IF n = 1 THEN 1
  ELSE LET b == BestIndex(scores, n - 1)
       IN  IF scores[n] > scores[b] THEN n ELSE b

ClassifiedIntent(intent, confidence, entities, original_text) ==
  [intent |-> intent, confidence |-> confidence, entities |-> entities,
   original_text |-> original_text]

\* a bug: empty input answered with the help intent
EmptyInputAsHelp(text) == ClassifiedIntent("help", 0, EmptyDict, text)

\* the result for a text that is empty once stripped
EmptyInputResult(text) == ClassifiedIntent("unknown", 0, EmptyDict, text)

\* a bug: the score is reported as it is
Unclipped(score) == score

\* min(best_score, 1.0)
Clip(score) == IF score < MaxConfidence THEN score ELSE MaxConfidence

\* the loop that fills intent_scores
IntentScores(original_text) ==
  [n \in 1..Len(intent_patterns) |->
     calculate_intent_score(original_text, intent_patterns[n].patterns)]

\* a bug: the entities extracted on the path below the threshold too
ClassifyBestExtracting(text, original_text, best_intent, best_score) ==
  IF best_score < Threshold
  THEN ClassifiedIntent("unknown", best_score, extract_entities(original_text), text)
  ELSE ClassifiedIntent(best_intent, Clip(best_score),
                        extract_entities(original_text), text)

\* classify_intent from the threshold test on
ClassifyBest(text, original_text, best_intent, best_score) ==
  IF best_score < Threshold
  THEN ClassifiedIntent("unknown", best_score, EmptyDict, text)
  ELSE ClassifiedIntent(best_intent, Clip(best_score),
                        extract_entities(original_text), text)

\* classify_intent with best the place of the best intent in the table
ClassifyAt(text, original_text, scores, best) ==
  ClassifyBest(text, original_text, intent_patterns[best].intent, scores[best])

\* classify_intent from the choice of the best intent on
ClassifyScored(text, original_text, scores) ==
  ClassifyAt(text, original_text, scores,
             BestIndex(scores, Len(intent_patterns)))

\* intent_scores as classify_intent leaves it: not filled for an empty text
ScoresFor(original_text) ==
  IF original_text = << >> THEN << >> ELSE IntentScores(original_text)

\* classify_intent for a normalized text and its scores
ClassifyWith(text, original_text, scores) ==
  IF original_text = << >>
  THEN EmptyInputResult(text)
  ELSE ClassifyScored(text, original_text, scores)

\* classify_intent after the normalization of the text
ClassifyNormalized(text, original_text) ==
  ClassifyWith(text, original_text, ScoresFor(original_text))

\* IntentClassifier.classify_intent
IntentClassifier_classify_intent(text) == ClassifyNormalized(text, Strip(Lower(text)))

UpdateIndicators == {"title", "date", "priority", "category"}

\* a bug: the second rule without its test of the intent
refine_unguarded(c) ==
  IF c.intent = "unknown" /\ "title" \in DOMAIN c.entities
  THEN ClassifiedIntent("add_task", AddTaskConfidence, c.entities, c.original_text)
  ELSE IF UpdateIndicators \cap DOMAIN c.entities # {}
  THEN ClassifiedIntent("update_task", UpdateTaskConfidence, c.entities, c.original_text)
  ELSE c

\* a bug: the two rules in the other order
refine_update_first(c) ==
  IF c.intent = "unknown" /\ UpdateIndicators \cap DOMAIN c.entities # {}
  THEN ClassifiedIntent("update_task", UpdateTaskConfidence, c.entities, c.original_text)
  ELSE IF c.intent = "unknown" /\ "title" \in DOMAIN c.entities
  THEN ClassifiedIntent("add_task", AddTaskConfidence, c.entities, c.original_text)
  ELSE c

\* a bug: the first rule without its test of the intent
refine_any_intent(c) ==
  IF "title" \in DOMAIN c.entities
  THEN ClassifiedIntent("add_task", AddTaskConfidence, c.entities, c.original_text)
  ELSE IF c.intent = "unknown" /\ UpdateIndicators \cap DOMAIN c.entities # {}
  THEN ClassifiedIntent("update_task", UpdateTaskConfidence, c.entities, c.original_text)
  ELSE c

refine_intent_with_entities(c) ==
  IF c.intent = "unknown" /\ "title" \in DOMAIN c.entities
  THEN ClassifiedIntent("add_task", AddTaskConfidence, c.entities, c.original_text)
  ELSE IF c.intent = "unknown" /\ UpdateIndicators \cap DOMAIN c.entities # {}
  THEN ClassifiedIntent("update_task", UpdateTaskConfidence, c.entities, c.original_text)
  ELSE c

\* the module-level classify_intent
classify_intent(text) ==
  refine_intent_with_entities(IntentClassifier_classify_intent(text))

(***************************************************************************)
(* AgentToolWiring                                                         *)
(***************************************************************************)
ToolMappingResult(success, tool_name, tool_parameters, message, error) ==
  [success |-> success, tool_name |-> tool_name, tool_parameters |-> tool_parameters,
   message |-> message, error |-> error]

\* the outcome of a call: a returned value or a raised exception
Return(x) == [raised |-> FALSE, value |-> x]
Raise(e) == [raised |-> TRUE, value |-> Text(e)]

\* a bug: the normalized text as the title of last resort
NormalizedTitle(original_text) == Str(Strip(Lower(original_text)))

\* title = original_text
FallbackTitle(original_text) == Str(original_text)

\* a bug: another default priority
LowPriority == Str(<<"low">>)

\* entities.get('priority', 'medium')
DefaultPriority == Str(<<"medium">>)

\* entities.get('category', 'general')
DefaultCategory == Str(<<"general">>)

\* the title of the new task: the title entity, else group 1 of the
\* router's own pattern (match), else the original text
AddTaskTitle(entity_title, original_text, match) ==
  IF Truthy(entity_title) THEN entity_title
  ELSE IF match.found THEN Str(Strip(GroupText(original_text, match.g[1])))
  ELSE FallbackTitle(original_text)

\* the parameters of add_task
AddTaskParams(entities, title) ==
  LET params ==
        [key \in {"title", "description", "priority", "category"} |->
           CASE key = "title" -> title
             [] key = "description" -> Get(entities, "description", Str(<< >>))
             [] key = "priority" -> Get(entities, "priority", DefaultPriority)
             [] key = "category" -> Get(entities, "category", DefaultCategory)]
  IN  IF "date" \in DOMAIN entities THEN Put(params, "due_date", entities["date"])
      ELSE params

\* the result of _map_add_task for a title
AddTaskResult(entities, title) ==
  Return(ToolMappingResult(TRUE, Text("add_task"), AddTaskParams(entities, title),
                           Format("Adding task: ", title), None))

\* _map_add_task
map_add_task(c, uid) ==
  AddTaskResult(c.entities,
                AddTaskTitle(Get(c.entities, "title", Str(<< >>)), c.original_text,
                             Search(AddTaskTitlePattern.re, c.original_text)))

\* params[key] = entities[source] for the pairs whose source is in entities
RECURSIVE CopyPresent(_, _, _)
CopyPresent(params, entities, pairs) ==
  IF pairs = << >> THEN params
  ELSE LET source == Head(pairs)[1]
           key == Head(pairs)[2]
       IN  CopyPresent(IF source \in DOMAIN entities
                       THEN Put(params, key, entities[source]) ELSE params,
                       entities, Tail(pairs))

\* a bug: the priority filled in with a default, as _map_add_task does
map_list_tasks_defaulting(c, uid) ==
  LET entities == c.entities
      params ==
        [key \in {"status", "limit", "offset", "priority"} |->
           CASE key = "status" -> Get(entities, "status", Str(<<"all">>))
             [] key = "limit" -> [t |-> "int", v |-> 50]
             [] key = "offset" -> [t |-> "int", v |-> 0]
             [] key = "priority" -> Get(entities, "priority", DefaultPriority)]
  IN  Return(ToolMappingResult(TRUE, Text("list_tasks"),
        CopyPresent(params, entities, << <<"category", "category">> >>),
        Text("Listing tasks"), None))

\* _map_list_tasks
map_list_tasks(c, uid) ==
  LET entities == c.entities
      params ==
        [key \in {"status", "limit", "offset"} |->
           CASE key = "status" -> Get(entities, "status", Str(<<"all">>))
             [] key = "limit" -> [t |-> "int", v |-> 50]
             [] key = "offset" -> [t |-> "int", v |-> 0]]
  IN  Return(ToolMappingResult(TRUE, Text("list_tasks"),
        CopyPresent(params, entities,
                    << <<"priority", "priority">>, <<"category", "category">> >>),
        Text("Listing tasks"), None))

\* a bug: no question back when nothing names the task
MapTaskByIdUnasked(c, tool, verb, copied, progress) ==
  LET entities == c.entities
      entity_task_id == Get(entities, "task_id", None)
      task_title == Get(entities, "title", Str(<< >>))
      task_id ==
        IF Truthy(entity_task_id) THEN entity_task_id
        ELSE Str(<<"placeholder-id-for-">> \o ReplaceSpaceByDash(task_title.v))
      params == [key \in {"task_id"} |-> task_id]
  IN  IF ~Truthy(entity_task_id) /\ Truthy(task_title) /\ ~IsStr(task_title)
      THEN Raise("AttributeError")
      ELSE Return(ToolMappingResult(TRUE, Text(tool),
             CopyPresent(params, entities, copied), Format(progress, task_id), None))

\* the part the three mappers of a single task share: the task is named by
\* a task_id entity or, failing that, by a placeholder made from the title;
\* task_title.replace exists only on a str
MapTaskById(c, tool, verb, copied, progress) ==
  LET entities == c.entities
      entity_task_id == Get(entities, "task_id", None)
      task_title == Get(entities, "title", Str(<< >>))
      task_id ==
        IF Truthy(entity_task_id) THEN entity_task_id
        ELSE Str(<<"placeholder-id-for-">> \o ReplaceSpaceByDash(task_title.v))
      params == [key \in {"task_id"} |-> task_id]
  IN  IF ~Truthy(entity_task_id) /\ ~Truthy(task_title)
      THEN Return(ToolMappingResult(FALSE, None, EmptyDict,
             Text("Which task would you like to " \o verb \o "?"),
             Text("Please specify which task to " \o verb \o ".")))
      ELSE IF ~Truthy(entity_task_id) /\ ~IsStr(task_title)
      THEN Raise("AttributeError")
      ELSE Return(ToolMappingResult(TRUE, Text(tool),
             CopyPresent(params, entities, copied), Format(progress, task_id), None))

\* _map_complete_task
map_complete_task(c, uid) ==
  MapTaskById(c, "complete_task", "complete", << <<"notes", "completion_notes">> >>,
              "Completing task: ")

\* _map_delete_task
map_delete_task(c, uid) ==
  MapTaskById(c, "delete_task", "delete", << >>, "Deleting task: ")

\* _map_update_task
map_update_task(c, uid) ==
  MapTaskById(c, "update_task", "update",
              << <<"title", "title">>, <<"description", "description">>,
                 <<"date", "due_date">>, <<"priority", "priority">>,
                 <<"category", "category">>, <<"completed", "completed">> >>,
              "Updating task: ")

\* a bug: the unknown intent answered with the help payload
DispatchUnknownAsHelp(c, uid) ==
  CASE c.intent = "add_task" -> map_add_task(c, uid)
    [] c.intent = "list_tasks" -> map_list_tasks(c, uid)
    [] c.intent = "complete_task" -> map_complete_task(c, uid)
    [] c.intent = "delete_task" -> map_delete_task(c, uid)
    [] c.intent = "update_task" -> map_update_task(c, uid)
    [] OTHER ->
         Return(ToolMappingResult(TRUE, Text("help"),
           [key \in {"message", "user_id"} |->
              IF key = "message" THEN Text("help") ELSE Text(uid)],
           Text("Showing help information"), None))

\* the if/elif chain of route_to_tool, inside its try block
Dispatch(c, uid) ==
  CASE c.intent = "add_task" -> map_add_task(c, uid)
    [] c.intent = "list_tasks" -> map_list_tasks(c, uid)
    [] c.intent = "complete_task" -> map_complete_task(c, uid)
    [] c.intent = "delete_task" -> map_delete_task(c, uid)
    [] c.intent = "update_task" -> map_update_task(c, uid)
    [] c.intent = "help" ->
         Return(ToolMappingResult(TRUE, Text("help"),
           [key \in {"message", "user_id"} |->
              IF key = "message" THEN Text("help") ELSE Text(uid)],
           Text("Showing help information"), None))
    [] OTHER ->
         Return(ToolMappingResult(FALSE, None, EmptyDict,
           Text("I didn't understand your request. Could you rephrase it?"),
           Format("Could not understand intent: ", Text(c.intent))))

\* the except clause of route_to_tool
HandleException(outcome) ==
  IF outcome.raised
  THEN Return(ToolMappingResult(FALSE, None, EmptyDict,
         Text("An error occurred while processing your request"),
         Format("Error routing to tool: ", outcome.value)))
  ELSE outcome

\* a bug: no try/except around the mappers
route_without_except(c, uid) == Dispatch(c, uid)

\* route_to_tool, from the classified intent on
route_to_tool(c, uid) == HandleException(Dispatch(c, uid))

(***************************************************************************)
(* The tools of task_tools.py and execute_mapped_tool                      *)
(***************************************************************************)
\* str(x) is a str for the three kinds of text of the model
IsPyStr(x) == x.t \in {"str", "text", "fstr"}

\* a field declared str (required) or Optional[str]
StrFieldOk(params, key, required) ==
  IF key \in DOMAIN params
  THEN IsPyStr(params[key]) \/ (~required /\ params[key] = None)
  ELSE ~required

\* a field declared Optional[int]
IntFieldOk(params, key) ==
  key \in DOMAIN params => (params[key].t = "int" \/ params[key] = None)

\* a field declared Optional[bool]
BoolFieldOk(params, key) ==
  key \in DOMAIN params => (params[key].t = "bool" \/ params[key] = None)

\* every key of keys is an Optional[str] field with a fitting value
OptionalStrs(params, keys) == \A key \in keys : StrFieldOk(params, key, FALSE)

\* parse_obj_as(<tool>Params, tool_params) raises no ValidationError
ParamsValid(tool_name, params) ==
  CASE tool_name = "add_task" ->
         /\ StrFieldOk(params, "title", TRUE)
         /\ OptionalStrs(params, {"description", "due_date", "priority", "category"})
    [] tool_name = "list_tasks" ->
         /\ OptionalStrs(params, {"status", "priority", "category"})
         /\ IntFieldOk(params, "limit")
         /\ IntFieldOk(params, "offset")
    [] tool_name = "complete_task" ->
         /\ StrFieldOk(params, "task_id", TRUE)
         /\ OptionalStrs(params, {"completion_notes"})
    [] tool_name = "delete_task" -> StrFieldOk(params, "task_id", TRUE)
    [] tool_name = "update_task" ->
         /\ StrFieldOk(params, "task_id", TRUE)
         /\ OptionalStrs(params, {"title", "description", "due_date", "priority", "category"})
         /\ BoolFieldOk(params, "completed")
    [] OTHER -> TRUE

\* ToolResult(error=...) and ToolResult(content=json.dumps(result))
ToolError(error) == [t |-> "ToolResult", error |-> error, content |-> "None"]
ToolContent(message) == [t |-> "ToolResult", error |-> "None", content |-> message]

\* the number of characters of a piece of a task id, and whether all of
\* them are hexadecimal digits
IdPieces ==
  [piece \in {"123e4567", "e89b", "12d3", "a456", "426614174000", "+23e4567",
              "0x3e4567", "zzzzzzzz", "invalid", "uuid", "format", "7",
              "{", "}", "urn:", "uuid:", DASH, SP} |->
     CASE piece = "123e4567" -> [len |-> 8, kind |-> "hex"]
       [] piece = "e89b" -> [len |-> 4, kind |-> "hex"]
       [] piece = "12d3" -> [len |-> 4, kind |-> "hex"]
       [] piece = "a456" -> [len |-> 4, kind |-> "hex"]
       [] piece = "426614174000" -> [len |-> 12, kind |-> "hex"]
       [] piece = "7" -> [len |-> 1, kind |-> "hex"]
       [] piece = "+23e4567" -> [len |-> 8, kind |-> "signed"]
       [] piece = "0x3e4567" -> [len |-> 8, kind |-> "prefixed"]
       [] piece = "zzzzzzzz" -> [len |-> 8, kind |-> "other"]
       [] piece = "invalid" -> [len |-> 7, kind |-> "other"]
       [] piece = "uuid" -> [len |-> 4, kind |-> "other"]
       [] piece = "format" -> [len |-> 6, kind |-> "other"]
       [] piece = "urn:" -> [len |-> 4, kind |-> "other"]
       [] piece = "uuid:" -> [len |-> 5, kind |-> "other"]
       [] piece = SP -> [len |-> 1, kind |-> "space"]
       [] OTHER -> [len |-> 1, kind |-> "other"]]

\* a piece outside the table stands behind 'placeholder-id-for-', which has
\* letters that are no hexadecimal digits
PieceKind(piece) == IF piece \in DOMAIN IdPieces THEN IdPieces[piece].kind ELSE "other"
PieceLen(piece) == IF piece \in DOMAIN IdPieces THEN IdPieces[piece].len ELSE 1

\* len(hex)
RECURSIVE CharLen(_)
CharLen(s) == IF s = << >> THEN 0 ELSE PieceLen(Head(s)) + CharLen(Tail(s))

\* hex.strip('{}')
RECURSIVE StripBraces(_)
StripBraces(s) ==
  IF s # << >> /\ Head(s) \in {"{", "}"} THEN StripBraces(Tail(s))
  ELSE IF s # << >> /\ s[Len(s)] \in {"{", "}"} THEN StripBraces(SubSeq(s, 1, Len(s) - 1))
  ELSE s

\* s.replace(piece, '')
Without(s, pieces) == SelectSeq(s, LAMBDA t : t \notin pieces)

\* int(hex, 16) raises no ValueError: blanks around, a sign or 0x in front,
\* then hexadecimal digits
IntParses(hex) ==
  LET digits == Strip(hex)
  IN  /\ digits # << >>
      /\ PieceKind(digits[1]) \in {"hex", "signed", "prefixed"}
      /\ \A i \in 2..Len(digits) : PieceKind(digits[i]) = "hex"

\* a bug: any id that is not empty taken for a UUID
AnyIdParses(task_id) == task_id # << >>

\* uuid.UUID(hex) raises no ValueError
UUIDParses(task_id) ==
  LET hex == Without(StripBraces(Without(task_id, {"urn:", "uuid:"})), {DASH})
  IN  CharLen(hex) = 32 /\ IntParses(hex)

\* priority not in ["low", "medium", "high"], for a priority that is given
BadPriority(priority) ==
  Truthy(priority) /\ priority.v \notin {<<"low">>, <<"medium">>, <<"high">>}

\* datetime.fromisoformat(due_date) raises no ValueError: YYYY-MM-DD
IsIsoFormat(due_date) ==
  /\ Len(due_date) = 10
  /\ \A i \in {1, 2, 3, 4, 6, 7, 9, 10} : due_date[i] \in Digits
  /\ due_date[5] = DASH
  /\ due_date[8] = DASH

\* add_task_tool; TaskCreate refuses an empty title
add_task_tool(params) ==
  IF BadPriority(Get(params, "priority", DefaultPriority))
  THEN ToolError("Invalid priority value. Use 'low', 'medium', or 'high'.")
  ELSE IF Truthy(Get(params, "due_date", None)) /\ ~IsIsoFormat(params["due_date"].v)
  THEN ToolError("Invalid due_date format. Use ISO 8601 format (YYYY-MM-DDTHH:mm:ss.sssZ).")
  ELSE IF params["title"].v = << >>
  THEN ToolError("Failed to create task")
  ELSE ToolContent("created successfully")

\* list_tasks_tool
list_tasks_tool(params) ==
  LET limit == Get(params, "limit", [t |-> "int", v |-> 50])
      offset == Get(params, "offset", [t |-> "int", v |-> 0])
      status == Get(params, "status", Str(<<"all">>))
  IN  IF limit # None /\ limit.v # 0 /\ (limit.v < 1 \/ limit.v > 100)
      THEN ToolError("Limit must be between 1 and 100")
      ELSE IF offset # None /\ offset.v < 0
      THEN ToolError("Offset must be greater than or equal to 0")
      ELSE IF Truthy(status) /\ status.v \notin {<<"all">>, <<"pending">>, <<"completed">>}
      THEN ToolError("Invalid status. Use 'all', 'pending', or 'completed'.")
      ELSE IF BadPriority(Get(params, "priority", None))
      THEN ToolError("Invalid priority. Use 'low', 'medium', or 'high'.")
      ELSE ToolContent("tasks")

\* complete_task_tool
complete_task_tool(params) ==
  IF ~UUIDParses(params["task_id"].v) THEN ToolError("Invalid task ID format")
  ELSE ToolContent("marked as completed")

\* delete_task_tool
delete_task_tool(params) ==
  IF ~UUIDParses(params["task_id"].v) THEN ToolError("Invalid task ID format")
  ELSE ToolContent("deleted successfully")

\* update_task_tool
update_task_tool(params) ==
  IF ~UUIDParses(params["task_id"].v) THEN ToolError("Invalid task ID format")
  ELSE IF BadPriority(Get(params, "priority", None))
  THEN ToolError("Invalid priority. Use 'low', 'medium', or 'high'.")
  ELSE ToolContent("updated successfully")

\* the names execute_mapped_tool knows a tool function for
ToolNames == {"add_task", "list_tasks", "complete_task", "delete_task", "update_task"}

\* the dict execute_mapped_tool itself returns on a failure
ExecutionFailure(error, message) ==
  [t |-> "dict", success |-> FALSE, error |-> error, message |-> message]

\* the dict execute_mapped_tool returns for the help tool
HelpAnswer == [t |-> "dict", success |-> TRUE, error |-> None, message |-> Text("help")]

\* the tool function of a name applied to validated parameters
CallTool(tool_name, params) ==
  CASE tool_name = "add_task" -> add_task_tool(params)
    [] tool_name = "list_tasks" -> list_tasks_tool(params)
    [] tool_name = "complete_task" -> complete_task_tool(params)
    [] tool_name = "delete_task" -> delete_task_tool(params)
    [] tool_name = "update_task" -> update_task_tool(params)

\* the tool execute_mapped_tool hands the parameters to, "" for none
ToolDispatched(m) ==
  IF /\ m.success
     /\ m.tool_name # None
     /\ m.tool_name.v \in ToolNames
     /\ ParamsValid(m.tool_name.v, m.tool_parameters)
  THEN m.tool_name.v
  ELSE ""

\* execute_mapped_tool after the test of success
ExecuteTool(m, tool) ==
  IF tool # "" THEN CallTool(tool, m.tool_parameters)
  ELSE IF m.tool_name # None /\ m.tool_name.v \in ToolNames
  THEN ExecutionFailure(Format("Error executing tool: ", m.tool_name),
                        Text("An error occurred while executing the requested action"))
  ELSE IF m.tool_name = Text("help") THEN HelpAnswer
  ELSE ExecutionFailure(Format("Unknown tool: ", m.tool_name),
                        Text("An error occurred while processing your request"))

\* a bug: no test of success before the dispatch
execute_unchecked(m, tool) == ExecuteTool(m, tool)

\* execute_mapped_tool
execute_mapped_tool(m, tool) ==
  IF ~m.success THEN ExecutionFailure(m.error, m.message)
  ELSE ExecuteTool(m, tool)

(***************************************************************************)
(* Inputs                                                                  *)
(***************************************************************************)
\* An utterance is made of at most MaxPhrases of these pieces.
Phrases ==
  { <<"Add", SP, "task", SP, "to", SP>>,
    <<SP>>,
    <<DOT>>,
    <<"Milk">>,
    <<"should", SP>>,
    <<"tomorrow">>,
    <<"urgent">>,
    <<"2", "0", "2", "4", DASH, "0", "1", DASH, "1", "5">>,
    <<"category", SP, "work">>,
    <<"update", SP, "task", SP, "x", NL>>,
    <<"delete", SP, "task", SP>>,
    <<"completed", SP>>,
    <<"my", SP, "task", "s", SP>>,
    <<"help", SP>> }

MaxPhrases == 2

RECURSIVE TextsOf(_)
TextsOf(n) ==
  IF n = 0 THEN { << >> }
  ELSE LET shorter == TextsOf(n - 1)
       IN  shorter \cup { t \o p : t \in shorter, p \in Phrases }

Texts == TextsOf(MaxPhrases)

UserIds == {"u1"}

NoIntent == ClassifiedIntent("unknown", 0, EmptyDict, << >>)
NoResult == ToolMappingResult(FALSE, None, EmptyDict, None, None)
NoCall == [made |-> FALSE, text |-> << >>, raw |-> NoIntent, result |-> NoIntent]

\* nothing executed, nobody calling, no task stored, no request answered
NoExecution == [success |-> FALSE]
NoResponse ==
  [op |-> "none", user |-> "", task_id |-> "", title |-> "", completed |-> "unset",
   status |-> 0, body |-> << >>]
\* no TaskManager used, no user stored, no registration asked for
NoOutcome ==
  [op |-> "none", task_id |-> 0, title |-> None, raised |-> FALSE, value |-> << >>]
StoreIdle ==
  /\ _tasks = << >>
  /\ _next_id = 1
  /\ last_call = NoOutcome
  /\ users = << >>
  /\ requests = << >>
RestIdle ==
  /\ tool_called = ""
  /\ execution_result = NoExecution
  /\ callers = << >>
  /\ tasks = << >>
  /\ response = NoResponse
  /\ StoreIdle

(***************************************************************************)
(* One utterance through route_to_tool                                     *)
(***************************************************************************)
Init ==
  /\ intent_patterns = InitialIntentPatterns
  /\ entity_patterns = InitialEntityPatterns
  /\ pc = "start"
  /\ user_input \in Texts
  /\ user_id \in UserIds
  /\ classified = NoIntent
  /\ classified_intent = NoIntent
  /\ refined_again = NoIntent
  /\ mapping_result = NoResult
  /\ raised = FALSE
  /\ first_call = NoCall
  /\ calls = 1
  /\ intent_scores = << >>
  /\ RestIdle

\* a bug: a classification that uses up the first entry of the intent table
ClassifyConsuming ==
  /\ pc = "start"
  /\ intent_scores' = ScoresFor(Strip(Lower(user_input)))
  /\ classified' = ClassifyWith(user_input, Strip(Lower(user_input)), intent_scores')
  /\ intent_patterns' = Tail(intent_patterns)
  /\ pc' = "classified"
  /\ UNCHANGED << entity_patterns, user_input, user_id,
                  classified_intent, refined_again, mapping_result, raised, first_call, calls,
                  rest_vars >>

\* a bug: the normalized text stored as original_text
ClassifyStoringNormalized ==
  /\ pc = "start"
  /\ intent_scores' = ScoresFor(Strip(Lower(user_input)))
  /\ classified' = [ClassifyWith(user_input, Strip(Lower(user_input)), intent_scores')
                      EXCEPT !.original_text = Strip(Lower(user_input))]
  /\ pc' = "classified"
  /\ UNCHANGED << intent_patterns, entity_patterns, user_input, user_id,
                  classified_intent, refined_again, mapping_result, raised, first_call, calls,
                  rest_vars >>

\* result = classifier.classify_intent(text)
Classify ==
  /\ pc = "start"
  /\ intent_scores' = ScoresFor(Strip(Lower(user_input)))
  /\ classified' = ClassifyWith(user_input, Strip(Lower(user_input)), intent_scores')
  /\ pc' = "classified"
  /\ UNCHANGED << intent_patterns, entity_patterns, user_input, user_id,
                  classified_intent, refined_again, mapping_result, raised, first_call, calls,
                  rest_vars >>

\* return classifier.refine_intent_with_entities(result)
Refine ==
  /\ pc = "classified"
  /\ classified_intent' = refine_intent_with_entities(classified)
  /\ pc' = "refined"
  /\ UNCHANGED << intent_patterns, entity_patterns, user_input, user_id,
                  classified, refined_again, mapping_result, raised, first_call, calls,
                  intent_scores, rest_vars >>

\* the rest of route_to_tool: the mapper of the intent and the except clause
Route ==
  /\ pc = "refined"
  /\ LET outcome == route_to_tool(classified_intent, user_id)
     IN  /\ raised' = outcome.raised
         /\ mapping_result' = IF outcome.raised THEN NoResult ELSE outcome.value
  /\ pc' = "routed"
  /\ UNCHANGED << intent_patterns, entity_patterns, user_input, user_id,
                  classified, classified_intent, refined_again, first_call, calls,
                  intent_scores, rest_vars >>

Next == Classify \/ Refine \/ Route

Spec == Init /\ [][Next]_vars

(***************************************************************************)
(* refine_intent_with_entities on any ClassifiedIntent                     *)
(***************************************************************************)
\* sample values of the entities; task_id stands for a key that is not an
\* update indicator
SampleEntities ==
  [key \in {"title", "date", "priority", "category", "task_id"} |->
     CASE key = "title" -> Str(<<"milk">>)
       [] key = "date" -> Str(<<"tomorrow">>)
       [] key = "priority" -> Str(<<"urgent">>)
       [] key = "category" -> Tuple(<<Str(<<"category", SP, "work">>), Str(<<"work">>)>>)
       [] key = "task_id" -> Str(<<"7">>)]

EntityDicts == { [key \in keys |-> SampleEntities[key]] : keys \in SUBSET DOMAIN SampleEntities }

SampleConfidences == {0, 5, MaxConfidence}

ClassifiedIntents ==
  { ClassifiedIntent(i, c, e, t) :
      i \in Intents, c \in SampleConfidences, e \in EntityDicts, t \in {<<"Milk">>, <<SP>>} }

InitRefine ==
  /\ intent_patterns = InitialIntentPatterns
  /\ entity_patterns = InitialEntityPatterns
  /\ pc = "classified"
  /\ classified \in ClassifiedIntents
  /\ user_input = classified.original_text
  /\ user_id \in UserIds
  /\ classified_intent = NoIntent
  /\ refined_again = NoIntent
  /\ mapping_result = NoResult
  /\ raised = FALSE
  /\ first_call = NoCall
  /\ calls = 1
  /\ intent_scores = << >>
  /\ RestIdle

\* refine_intent_with_entities applied to its own result
RefineAgain ==
  /\ pc = "refined"
  /\ refined_again' = refine_intent_with_entities(classified_intent)
  /\ pc' = "refined_again"
  /\ UNCHANGED << intent_patterns, entity_patterns, user_input, user_id,
                  classified, classified_intent, mapping_result, raised, first_call, calls,
                  intent_scores, rest_vars >>

NextRefine == Refine \/ RefineAgain

SpecRefine == InitRefine /\ [][NextRefine]_vars

(***************************************************************************)
(* Several calls of classify_intent, one after the other, on the one       *)
(* global classifier                                                       *)
(***************************************************************************)
\* the number of calls of a run
MaxCalls == 3

SeqTexts == TextsOf(1)

InitSeq ==
  /\ intent_patterns = InitialIntentPatterns
  /\ entity_patterns = InitialEntityPatterns
  /\ pc = "start"
  /\ user_input \in SeqTexts
  /\ user_id \in UserIds
  /\ classified = NoIntent
  /\ classified_intent = NoIntent
  /\ refined_again = NoIntent
  /\ mapping_result = NoResult
  /\ raised = FALSE
  /\ first_call = NoCall
  /\ calls = 1
  /\ intent_scores = << >>
  /\ RestIdle

\* the end of a call of classify_intent; the first call of the run is kept
Return1 ==
  /\ pc = "refined"
  /\ first_call' =
       IF first_call.made THEN first_call
       ELSE [made |-> TRUE, text |-> user_input, raw |-> classified,
             result |-> classified_intent]
  /\ pc' = "returned"
  /\ UNCHANGED << intent_patterns, entity_patterns, user_input, user_id, classified,
                  classified_intent, refined_again, mapping_result, raised, calls,
                  intent_scores, rest_vars >>

\* the next call, on any text; the results of the last call are gone
NextCall ==
  /\ pc = "returned"
  /\ calls < MaxCalls
  /\ calls' = calls + 1
  /\ user_input' \in SeqTexts
  /\ pc' = "start"
  /\ classified' = NoIntent
  /\ classified_intent' = NoIntent
  /\ intent_scores' = << >>
  /\ UNCHANGED << intent_patterns, entity_patterns, user_id, refined_again,
                  mapping_result, raised, first_call,
                  rest_vars >>

NextSeq == Classify \/ Refine \/ Return1 \/ NextCall

SpecSeq == InitSeq /\ [][NextSeq]_vars

(***************************************************************************)
(* route_and_execute_tool, and execute_mapped_tool on any mapping result   *)
(***************************************************************************)
CanonicalId == <<"123e4567", DASH, "e89b", DASH, "12d3", DASH, "a456", DASH, "426614174000">>

\* task ids a caller may hand to the tools
TaskIds ==
  { CanonicalId,
    Without(CanonicalId, {DASH}),
    <<"{">> \o CanonicalId \o <<"}">>,
    <<"urn:", "uuid:">> \o CanonicalId,
    <<"invalid", DASH, "uuid", DASH, "format">>,
    << >>,
    <<"+23e4567">> \o Tail(CanonicalId),
    <<"0x3e4567">> \o Tail(CanonicalId),
    <<"zzzzzzzz">> \o Tail(CanonicalId),
    SubSeq(CanonicalId, 1, 7),
    <<"123e4567", "e89b", DASH, "12d3", DASH, "a456", DASH, "426614174000">>,
    <<"7">> }

FailedMappings ==
  { ToolMappingResult(FALSE, tool_name, tool_parameters, message, error) :
      tool_name \in {None, Text("delete_task")},
      tool_parameters \in {EmptyDict, [key \in {"task_id"} |-> Str(CanonicalId)]},
      message \in {None, Text("Which task would you like to delete?")},
      error \in {None, Text("Please specify which task to delete.")} }

ByIdMappings ==
  { ToolMappingResult(TRUE, Text(tool_name), [key \in {"task_id"} |-> Str(task_id)],
                      None, None) :
      tool_name \in {"complete_task", "delete_task", "update_task"}, task_id \in TaskIds }
  \cup
  { ToolMappingResult(TRUE, Text("update_task"),
                      [key \in {"task_id", "priority"} |->
                         IF key = "task_id" THEN Str(task_id) ELSE Str(<<"urgent">>)],
                      None, None) : task_id \in TaskIds }

OtherMappings ==
  { ToolMappingResult(TRUE, None, EmptyDict, None, None),
    ToolMappingResult(TRUE, Text("archive_task"), EmptyDict, None, None),
    ToolMappingResult(TRUE, Text("delete_task"), EmptyDict, None, None),
    ToolMappingResult(TRUE, Text("complete_task"),
                      [key \in {"task_id"} |-> List(<<Str(CanonicalId)>>)], None, None) }

MappingResults == FailedMappings \cup ByIdMappings \cup OtherMappings

\* either an utterance for route_and_execute_tool or a mapping result for
\* execute_mapped_tool
InitExecute ==
  /\ intent_patterns = InitialIntentPatterns
  /\ entity_patterns = InitialEntityPatterns
  /\ \/ /\ pc = "start"
        /\ user_input \in Texts
        /\ mapping_result = NoResult
     \/ /\ pc = "routed"
        /\ user_input = << >>
        /\ mapping_result \in MappingResults
  /\ user_id \in UserIds
  /\ classified = NoIntent
  /\ classified_intent = NoIntent
  /\ refined_again = NoIntent
  /\ raised = FALSE
  /\ first_call = NoCall
  /\ calls = 1
  /\ intent_scores = << >>
  /\ RestIdle

\* execute_mapped_tool(mapping_result)
Execute ==
  /\ pc = "routed"
  /\ tool_called' = ToolDispatched(mapping_result)
  /\ execution_result' = execute_mapped_tool(mapping_result, tool_called')
  /\ pc' = "executed"
  /\ UNCHANGED << intent_patterns, entity_patterns, user_input, user_id, classified,
                  classified_intent, refined_again, mapping_result, raised, first_call,
                  calls, intent_scores, callers, tasks, response,
                  store_vars >>

NextExecute == Classify \/ Refine \/ Route \/ Execute

SpecExecute == InitExecute /\ [][NextExecute]_vars

(***************************************************************************)
(* A classifier built from a pattern table that may hold a pattern re      *)
(* cannot compile                                                          *)
(***************************************************************************)
\* a pattern with a syntax error, such as r'\b(help'
InvalidPattern == [re |-> [k |-> "invalid"], words |-> {}, groups |-> 0]

\* re.compile(pattern) raises no re.error
Compiles(pattern) == pattern.re.k # "invalid"

\* the tables of __init__, and the same with one pattern mistyped
IntentTables ==
  {InitialIntentPatterns} \cup
  { [InitialIntentPatterns EXCEPT ![n].patterns = Append(@, InvalidPattern)] :
      n \in 1..Len(InitialIntentPatterns) }

EntityTables ==
  {InitialEntityPatterns} \cup
  { [InitialEntityPatterns EXCEPT ![n].patterns = Append(@, InvalidPattern)] :
      n \in 1..Len(InitialEntityPatterns) } \cup
  { [InitialEntityPatterns EXCEPT ![n].patterns = <<InvalidPattern>> \o @] :
      n \in 1..Len(InitialEntityPatterns) }

PatternTables ==
  (IntentTables \X {InitialEntityPatterns}) \cup ({InitialIntentPatterns} \X EntityTables)

\* every pattern of a table compiles
AllCompile(table) ==
  \A n \in 1..Len(table) : \A i \in 1..Len(table[n].patterns) :
    Compiles(table[n].patterns[i])

\* re.findall in _calculate_intent_score raises re.error: every pattern of
\* every intent is tried on a text that is not empty
ScoreRaises(original_text) == original_text # << >> /\ ~AllCompile(intent_patterns)

\* re.findall in _extract_entities raises re.error: a pattern is tried when
\* no pattern before it in the list of its entity type has matched
ExtractRaises(original_text) ==
  \E n \in 1..Len(entity_patterns) : \E i \in 1..Len(entity_patterns[n].patterns) :
    /\ ~Compiles(entity_patterns[n].patterns[i])
    /\ \A j \in 1..(i - 1) :
         FindAll(entity_patterns[n].patterns[j].re, original_text) = << >>

\* classify_intent raises re.error for the scores of a text
ClassifyRaises(original_text, scores) ==
  \/ ScoreRaises(original_text)
  \/ /\ scores # << >>
     /\ scores[BestIndex(scores, Len(scores))] >= Threshold
     /\ ExtractRaises(original_text)

InitBroken ==
  /\ intent_patterns = << >>
  /\ entity_patterns = << >>
  /\ pc = "unbuilt"
  /\ user_input \in SeqTexts
  /\ user_id \in UserIds
  /\ classified = NoIntent
  /\ classified_intent = NoIntent
  /\ refined_again = NoIntent
  /\ mapping_result = NoResult
  /\ raised = FALSE
  /\ first_call = NoCall
  /\ calls = 1
  /\ intent_scores = << >>
  /\ RestIdle

\* classifier = IntentClassifier(): __init__ stores the pattern strings
Construct ==
  /\ pc = "unbuilt"
  /\ \E tables \in PatternTables :
       /\ intent_patterns' = tables[1]
       /\ entity_patterns' = tables[2]
  /\ pc' = "start"
  /\ UNCHANGED << user_input, user_id, classified, classified_intent, refined_again,
                  mapping_result, raised, first_call, calls, intent_scores, rest_vars >>

\* result = classifier.classify_intent(text), where re may raise re.error
ClassifyCompiling ==
  /\ pc = "start"
  /\ intent_scores' =
       IF ScoreRaises(Strip(Lower(user_input))) THEN << >>
       ELSE ScoresFor(Strip(Lower(user_input)))
  /\ IF ClassifyRaises(Strip(Lower(user_input)), intent_scores')
     THEN /\ classified' = NoIntent
          /\ pc' = "raised"
     ELSE /\ classified' =
               ClassifyWith(user_input, Strip(Lower(user_input)), intent_scores')
          /\ pc' = "classified"
  /\ UNCHANGED << intent_patterns, entity_patterns, user_input, user_id,
                  classified_intent, refined_again, mapping_result, raised, first_call, calls,
                  rest_vars >>

\* the except clause of route_to_tool for an error raised by classify_intent
Catch ==
  /\ pc = "raised"
  /\ mapping_result' = HandleException(Raise("re.error")).value
  /\ pc' = "routed"
  /\ UNCHANGED << intent_patterns, entity_patterns, user_input, user_id,
                  classified, classified_intent, refined_again, raised, first_call, calls,
                  intent_scores, rest_vars >>

NextBroken == Construct \/ ClassifyCompiling \/ Refine \/ Route \/ Catch

SpecBroken == InitBroken /\ [][NextBroken]_vars

(***************************************************************************)
(* Several callers of route_to_tool at once on the global classifier and   *)
(* the global wiring; a caller is preempted between its steps              *)
(***************************************************************************)
\* the number of concurrent callers
MaxCallers == 2

CallerTexts ==
  { << >>,
    <<"Milk">>,
    <<"help", SP>>,
    <<"delete", SP, "task", SP>>,
    <<"Add", SP, "task", SP, "to", SP, "Milk">> }

\* a caller before its first step; alone is what route_to_tool returns for
\* its text when no other call is under way
StartOf(text, uid) ==
  [pc |-> "start", text |-> text, classified |-> NoIntent, classified_intent |-> NoIntent,
   mapping_result |-> NoResult, alone |-> route_to_tool(classify_intent(text), uid).value]

InitConcurrent ==
  /\ intent_patterns = InitialIntentPatterns
  /\ entity_patterns = InitialEntityPatterns
  /\ pc = "concurrent"
  /\ user_input = << >>
  /\ user_id \in UserIds
  /\ classified = NoIntent
  /\ classified_intent = NoIntent
  /\ refined_again = NoIntent
  /\ mapping_result = NoResult
  /\ raised = FALSE
  /\ first_call = NoCall
  /\ calls = 1
  /\ intent_scores = << >>
  /\ tool_called = ""
  /\ execution_result = NoExecution
  /\ callers \in [1..MaxCallers -> { StartOf(text, user_id) : text \in CallerTexts }]
  /\ tasks = << >>
  /\ response = NoResponse
  /\ StoreIdle

\* a bug: a classification that uses up the first entry of the shared table
CallerClassifyConsuming(c) ==
  /\ callers[c].pc = "start"
  /\ callers' = [callers EXCEPT
                   ![c].classified = IntentClassifier_classify_intent(callers[c].text),
                   ![c].pc = "classified"]
  /\ intent_patterns' = Tail(intent_patterns)
  /\ UNCHANGED << entity_patterns, pc, user_input, user_id, classified,
                  classified_intent, refined_again, mapping_result, raised, first_call,
                  calls, intent_scores, tool_called, execution_result, tasks, response,
                  store_vars >>

\* result = classifier.classify_intent(text) of caller c
CallerClassify(c) ==
  /\ callers[c].pc = "start"
  /\ callers' = [callers EXCEPT
                   ![c].classified = IntentClassifier_classify_intent(callers[c].text),
                   ![c].pc = "classified"]
  /\ UNCHANGED << intent_patterns, entity_patterns, pc, user_input, user_id, classified,
                  classified_intent, refined_again, mapping_result, raised, first_call,
                  calls, intent_scores, tool_called, execution_result, tasks, response,
                  store_vars >>

\* return classifier.refine_intent_with_entities(result) of caller c
CallerRefine(c) ==
  /\ callers[c].pc = "classified"
  /\ callers' = [callers EXCEPT
                   ![c].classified_intent = refine_intent_with_entities(callers[c].classified),
                   ![c].pc = "refined"]
  /\ UNCHANGED << intent_patterns, entity_patterns, pc, user_input, user_id, classified,
                  classified_intent, refined_again, mapping_result, raised, first_call,
                  calls, intent_scores, tool_called, execution_result, tasks, response,
                  store_vars >>

\* the rest of route_to_tool of caller c
CallerRoute(c) ==
  /\ callers[c].pc = "refined"
  /\ callers' = [callers EXCEPT
                   ![c].mapping_result =
                     route_to_tool(callers[c].classified_intent, user_id).value,
                   ![c].pc = "routed"]
  /\ UNCHANGED << intent_patterns, entity_patterns, pc, user_input, user_id, classified,
                  classified_intent, refined_again, mapping_result, raised, first_call,
                  calls, intent_scores, tool_called, execution_result, tasks, response,
                  store_vars >>

NextConcurrent ==
  \/ \E c \in DOMAIN callers : CallerClassify(c)
  \/ \E c \in DOMAIN callers : CallerRefine(c)
  \/ \E c \in DOMAIN callers : CallerRoute(c)

SpecConcurrent == InitConcurrent /\ [][NextConcurrent]_vars

(***************************************************************************)
(* The task table behind /api/tasks: the handlers of api/tasks.py and the  *)
(* functions of task_service.py they call                                  *)
(***************************************************************************)
\* the number of tasks ever created
MaxTasks == 2

\* the users of the tokens; both have a row in the user table
TokenUsers == {"u1", "u2"}

\* the ids uuid4 hands out, in the order of creation
AllRowIds == <<"t1", "t2", "t3", "t4">>

\* a task_id in a path that uuid.UUID does not parse
NotAnId == "not-a-uuid"

RequestIds == { AllRowIds[n] : n \in 1..MaxTasks } \cup {NotAnId}

\* the titles of the bodies of POST: too short, good
CreateTitles == {"x", "Buy milk"}

\* the completed field of a PUT body: left out, true or false
SuppliedCompleted == {"unset", "true", "false"}
\* the titles of the bodies of PUT: none or empty, too short, good
UpdateTitles == {"", "x", "Call mom"}

\* what is left of a row after session.delete
Deleted == [user_id |-> "", title |-> "", completed |-> FALSE, present |-> FALSE]

\* len(title) < 2 or len(title) > 50
BadTitleLength(title) == Len(title) < 2 \/ Len(title) > 50

\* a bug: select(Task).where(Task.id == task_uuid), whoever owns the task
FoundAnyOwner(table, task_id, user) ==
  task_id \in DOMAIN table /\ table[task_id].present

\* select(Task).where(Task.id == task_uuid, Task.user_id == user_uuid).first()
Found(table, task_id, user) ==
  /\ task_id \in DOMAIN table
  /\ table[task_id].present
  /\ table[task_id].user_id = user

\* what a handler leaves behind: the status, the table and the body
Outcome(status, table, body) == [status |-> status, tasks |-> table, body |-> body]

\* the rows of a table with the given ids
Rows(table, ids) == [task_id \in ids |-> table[task_id]]

\* get_user_tasks
get_user_tasks(table, user) ==
  Rows(table, { task_id \in DOMAIN table :
                  table[task_id].present /\ table[task_id].user_id = user })

\* get_task_by_id, and the 404 of get_specific_task for None
get_task_by_id(table, task_id, user) ==
  IF task_id = NotAnId THEN Outcome(400, table, << >>)
  ELSE IF ~Found(table, task_id, user) THEN Outcome(404, table, << >>)
  ELSE Outcome(200, table, Rows(table, {task_id}))

\* create_task: the new row gets the next id; completed is False unless
\* the body says otherwise
create_task(table, title, completed, user) ==
  IF BadTitleLength(title) THEN Outcome(400, table, << >>)
  ELSE Outcome(200,
               Put(table, AllRowIds[Cardinality(DOMAIN table) + 1],
                   [user_id |-> user, title |-> title, completed |-> completed,
                    present |-> TRUE]),
               << >>)

\* update_task: task_data is a TaskBase, so its title and its completed are
\* never None
update_task(table, task_id, title, completed, user) ==
  IF task_id = NotAnId THEN Outcome(400, table, << >>)
  ELSE IF ~Found(table, task_id, user) THEN Outcome(404, table, << >>)
  ELSE IF title # "" /\ BadTitleLength(title) THEN Outcome(400, table, << >>)
  ELSE Outcome(200,
               [table EXCEPT ![task_id].title = title, ![task_id].completed = completed],
               << >>)

\* delete_task
delete_task(table, task_id, user) ==
  IF task_id = NotAnId THEN Outcome(400, table, << >>)
  ELSE IF ~Found(table, task_id, user) THEN Outcome(404, table, << >>)
  ELSE Outcome(200, [table EXCEPT ![task_id] = Deleted], << >>)

\* toggle_task_completion
toggle_task_completion(table, task_id, user) ==
  IF task_id = NotAnId THEN Outcome(400, table, << >>)
  ELSE IF ~Found(table, task_id, user) THEN Outcome(404, table, << >>)
  ELSE Outcome(200, [table EXCEPT ![task_id].completed = ~table[task_id].completed],
               << >>)

\* PUT /api/tasks/{task_id}: the title is validated when there is one, then
\* TaskBase(**filtered_update_data) is built, which has no default for the
\* title and refuses an empty one, and only then update_task looks the task up
UpdateOutcome(table, task_id, title, completed, user) ==
  IF title # "" /\ BadTitleLength(title) THEN Outcome(400, table, << >>)
  ELSE IF BadTitleLength(title) THEN Outcome(500, table, << >>)
  ELSE update_task(table, task_id, title, completed, user)

\* the table and the response after a request
Answer(op, user, task_id, title, completed, outcome) ==
  /\ tasks' = outcome.tasks
  /\ response' = [op |-> op, user |-> user, task_id |-> task_id, title |-> title,
                   completed |-> completed, status |-> outcome.status,
                   body |-> outcome.body]
  /\ UNCHANGED << intent_patterns, entity_patterns, pc, user_input, user_id, classified,
                  classified_intent, refined_again, mapping_result, raised, first_call,
                  calls, intent_scores, tool_called, execution_result, callers,
                  store_vars >>

\* the API process builds no classifier
InitTasks ==
  /\ intent_patterns = << >>
  /\ entity_patterns = << >>
  /\ pc = "serving"
  /\ user_input = << >>
  /\ user_id \in UserIds
  /\ classified = NoIntent
  /\ classified_intent = NoIntent
  /\ refined_again = NoIntent
  /\ mapping_result = NoResult
  /\ raised = FALSE
  /\ first_call = NoCall
  /\ calls = 1
  /\ intent_scores = << >>
  /\ RestIdle

\* GET /api/tasks/
get_tasks ==
  \E user \in TokenUsers :
    Answer("get_tasks", user, "", "", "unset", Outcome(200, tasks, get_user_tasks(tasks, user)))

\* POST /api/tasks/
create_new_task ==
  /\ Cardinality(DOMAIN tasks) < MaxTasks
  /\ \E user \in TokenUsers, title \in CreateTitles :
       Answer("create_new_task", user, "", title, "unset", create_task(tasks, title, FALSE, user))

\* GET /api/tasks/{task_id}
get_specific_task ==
  \E user \in TokenUsers, task_id \in RequestIds :
    Answer("get_specific_task", user, task_id, "", "unset", get_task_by_id(tasks, task_id, user))

\* the completed field of TaskBase(**filtered_update_data): the value the body
\* supplies, the default False when the body leaves it out
TaskBaseCompleted(completed) == completed = "true"

\* PUT /api/tasks/{task_id}; the body's title is "" when left out
update_existing_task ==
  \E user \in TokenUsers, task_id \in RequestIds, title \in UpdateTitles,
     completed \in SuppliedCompleted :
    Answer("update_existing_task", user, task_id, title, completed,
           UpdateOutcome(tasks, task_id, title, TaskBaseCompleted(completed), user))

\* DELETE /api/tasks/{task_id}
delete_specific_task ==
  \E user \in TokenUsers, task_id \in RequestIds :
    Answer("delete_specific_task", user, task_id, "", "unset",
           delete_task(tasks, task_id, user))

\* PATCH /api/tasks/{task_id}/toggle
toggle_task_status ==
  \E user \in TokenUsers, task_id \in RequestIds :
    Answer("toggle_task_status", user, task_id, "", "unset",
           toggle_task_completion(tasks, task_id, user))

NextTasks ==
  \/ get_tasks
  \/ create_new_task
  \/ get_specific_task
  \/ update_existing_task
  \/ delete_specific_task
  \/ toggle_task_status

SpecTasks == InitTasks /\ [][NextTasks]_vars

(***************************************************************************)
(* The in-memory TaskManager of src/storage.py                             *)
(***************************************************************************)
\* the number of tasks a run adds
MaxAdds == 2

\* the titles and descriptions handed to add_task and update_task
ManagerTitles == {<< >>, <<SP>>, <<SP, "milk", SP>>, <<"eggs">>}
ManagerDescriptions == {<< >>, <<"2l", SP>>}
Optional(values) == {None} \cup {Str(v) : v \in values}

\* the ids asked for: stored ones, deleted ones and ones never handed out
AskedIds == 0..(MaxAdds + 2)

\* Task(id=..., title=..., description=...); created_at is left out
Task(id, title, description) ==
  [id |-> id, title |-> title, description |-> description, completed |-> FALSE]

\* what a method does: the exception or the value, and the manager after it
MethodRaises(list, next_id) ==
  [raised |-> TRUE, _tasks |-> list, _next_id |-> next_id, value |-> << >>]
MethodReturns(list, next_id, value) ==
  [raised |-> FALSE, _tasks |-> list, _next_id |-> next_id, value |-> value]

\* description.strip() if description else ""
StripDescription(description) ==
  IF description = << >> THEN << >> ELSE Strip(description)

\* a bug: the counter moved on before the title is looked at
add_task_counting(list, next_id, title, description) ==
  IF Strip(title) = << >> THEN MethodRaises(list, next_id + 1)
  ELSE MethodReturns(Append(list, Task(next_id, Strip(title), StripDescription(description))),
                     next_id + 1,
                     <<Task(next_id, Strip(title), StripDescription(description))>>)

\* a bug: the id taken from the length of the list
add_task_by_length(list, next_id, title, description) ==
  IF Strip(title) = << >> THEN MethodRaises(list, next_id)
  ELSE MethodReturns(Append(list, Task(Len(list) + 1, Strip(title),
                                       StripDescription(description))),
                     next_id + 1,
                     <<Task(Len(list) + 1, Strip(title), StripDescription(description))>>)

\* TaskManager.add_task
TaskManager_add_task(list, next_id, title, description) ==
  IF Strip(title) = << >> THEN MethodRaises(list, next_id)
  ELSE MethodReturns(Append(list, Task(next_id, Strip(title), StripDescription(description))),
                     next_id + 1,
                     <<Task(next_id, Strip(title), StripDescription(description))>>)

\* TaskManager.list_tasks
TaskManager_list_tasks(list, next_id) == MethodReturns(list, next_id, list)

\* the place of the first task with the id in the list, 0 for none
PlaceOf(list, task_id) ==
  IF \A i \in 1..Len(list) : list[i].id # task_id THEN 0
  ELSE CHOOSE i \in 1..Len(list) :
         /\ list[i].id = task_id
         /\ \A j \in 1..(i - 1) : list[j].id # task_id

\* TaskManager.get_task
TaskManager_get_task(list, next_id, task_id) ==
  IF PlaceOf(list, task_id) = 0 THEN MethodRaises(list, next_id)
  ELSE MethodReturns(list, next_id, <<list[PlaceOf(list, task_id)]>>)

\* the task after the assignments of update_task
Updated(task, title, description) ==
  [task EXCEPT !.title = IF title = None THEN @ ELSE Strip(title.v),
               !.description = IF description = None THEN @
                               ELSE StripDescription(description.v)]

\* TaskManager.update_task
TaskManager_update_task(list, next_id, task_id, title, description) ==
  IF PlaceOf(list, task_id) = 0 THEN MethodRaises(list, next_id)
  ELSE IF title # None /\ Strip(title.v) = << >> THEN MethodRaises(list, next_id)
  ELSE MethodReturns(
         [list EXCEPT ![PlaceOf(list, task_id)] = Updated(@, title, description)],
         next_id,
         <<Updated(list[PlaceOf(list, task_id)], title, description)>>)

\* TaskManager.toggle_complete
TaskManager_toggle_complete(list, next_id, task_id) ==
  IF PlaceOf(list, task_id) = 0 THEN MethodRaises(list, next_id)
  ELSE MethodReturns(
         [list EXCEPT ![PlaceOf(list, task_id)].completed = ~@],
         next_id,
         <<[list[PlaceOf(list, task_id)] EXCEPT !.completed = ~@]>>)

\* del self._tasks[i]
DelAt(list, i) == SubSeq(list, 1, i - 1) \o SubSeq(list, i + 1, Len(list))

\* TaskManager.delete_task
TaskManager_delete_task(list, next_id, task_id) ==
  IF PlaceOf(list, task_id) = 0 THEN MethodRaises(list, next_id)
  ELSE MethodReturns(DelAt(list, PlaceOf(list, task_id)), next_id, << >>)

\* the manager after a call of a method, and the record of the call
Called(op, task_id, title, result) ==
  /\ _tasks' = result._tasks
  /\ _next_id' = result._next_id
  /\ last_call' = [op |-> op, task_id |-> task_id, title |-> title,
                    raised |-> result.raised, value |-> result.value]
  /\ UNCHANGED << intent_patterns, entity_patterns, pc, user_input, user_id, classified,
                  classified_intent, refined_again, mapping_result, raised, first_call,
                  calls, intent_scores, tool_called, execution_result, callers, tasks,
                  response, users, requests >>

\* TaskManager()
InitManager ==
  /\ intent_patterns = << >>
  /\ entity_patterns = << >>
  /\ pc = "managing"
  /\ user_input = << >>
  /\ user_id \in UserIds
  /\ classified = NoIntent
  /\ classified_intent = NoIntent
  /\ refined_again = NoIntent
  /\ mapping_result = NoResult
  /\ raised = FALSE
  /\ first_call = NoCall
  /\ calls = 1
  /\ intent_scores = << >>
  /\ RestIdle

\* manager.add_task(title, description)
AddTask ==
  /\ _next_id <= MaxAdds
  /\ \E title \in ManagerTitles, description \in ManagerDescriptions :
       Called("add_task", 0, Str(title),
              TaskManager_add_task(_tasks, _next_id, title, description))

\* manager.list_tasks()
ListTasks == Called("list_tasks", 0, None, TaskManager_list_tasks(_tasks, _next_id))

\* manager.get_task(task_id)
GetTask ==
  \E task_id \in AskedIds :
    Called("get_task", task_id, None, TaskManager_get_task(_tasks, _next_id, task_id))

\* manager.update_task(task_id, title, description)
UpdateTask ==
  \E task_id \in AskedIds, title \in Optional(ManagerTitles),
     description \in Optional(ManagerDescriptions) :
    Called("update_task", task_id, title,
           TaskManager_update_task(_tasks, _next_id, task_id, title, description))

\* manager.toggle_complete(task_id)
ToggleComplete ==
  \E task_id \in AskedIds :
    Called("toggle_complete", task_id, None,
           TaskManager_toggle_complete(_tasks, _next_id, task_id))

\* manager.delete_task(task_id)
DeleteTask ==
  \E task_id \in AskedIds :
    Called("delete_task", task_id, None,
           TaskManager_delete_task(_tasks, _next_id, task_id))

NextManager ==
  \/ AddTask
  \/ ListTasks
  \/ GetTask
  \/ UpdateTask
  \/ ToggleComplete
  \/ DeleteTask

SpecManager == InitManager /\ [][NextManager]_vars

(***************************************************************************)
(* POST /api/auth/register: requests at once on one user table whose email *)
(* column is unique                                                        *)
(***************************************************************************)
\* the number of requests in flight
MaxRequests == 3

Emails == {"a@x.org", "b@x.org"}

\* a request: where it stands in register_user_async and how it was answered
Request(email, at, status) == [email |-> email, at |-> at, status |-> status]

\* select(User).where(User.email == user_data.email) finds a row
Registered(table, email) == \E i \in 1..Len(table) : table[i] = email

\* register_user_async up to its await: 409 for an email that is found,
\* else the password goes to the executor
CheckedRequest(table, request) ==
  IF Registered(table, request.email)
  THEN Request(request.email, "answered", 409)
  ELSE Request(request.email, "hashing", 0)

\* session.add and session.commit: the unique email column refuses a second
\* row with the email
Commit(table, email) ==
  IF Registered(table, email)
  THEN [raised |-> TRUE, users |-> table]
  ELSE [raised |-> FALSE, users |-> Append(table, email)]

\* register after the await: the except clause of the handler turns what
\* is no HTTPException into 500
InsertedRequest(table, request) ==
  IF Commit(table, request.email).raised
  THEN Request(request.email, "answered", 500)
  ELSE Request(request.email, "answered", 200)

\* the user table may hold a user already; the requests have been received
InitRegister ==
  /\ intent_patterns = << >>
  /\ entity_patterns = << >>
  /\ pc = "registering"
  /\ user_input = << >>
  /\ user_id \in UserIds
  /\ classified = NoIntent
  /\ classified_intent = NoIntent
  /\ refined_again = NoIntent
  /\ mapping_result = NoResult
  /\ raised = FALSE
  /\ first_call = NoCall
  /\ calls = 1
  /\ intent_scores = << >>
  /\ tool_called = ""
  /\ execution_result = NoExecution
  /\ callers = << >>
  /\ tasks = << >>
  /\ response = NoResponse
  /\ _tasks = << >>
  /\ _next_id = 1
  /\ last_call = NoOutcome
  /\ users \in {<< >>, <<"b@x.org">>}
  /\ \E n \in 1..MaxRequests :
       requests \in [1..n -> {Request(email, "received", 0) : email \in Emails}]

\* a request runs register_user_async up to the await of the hash
CheckExisting ==
  \E r \in DOMAIN requests :
    /\ requests[r].at = "received"
    /\ requests' = [requests EXCEPT ![r] = CheckedRequest(users, @)]
    /\ UNCHANGED << intent_patterns, entity_patterns, pc, user_input, user_id,
                    classified, classified_intent, refined_again, mapping_result,
                    raised, first_call, calls, intent_scores, tool_called,
                    execution_result, callers, tasks, response, _tasks, _next_id,
                    last_call, users >>

\* the hash is there: the request inserts its user and is answered
InsertUser ==
  \E r \in DOMAIN requests :
    /\ requests[r].at = "hashing"
    /\ users' = Commit(users, requests[r].email).users
    /\ requests' = [requests EXCEPT ![r] = InsertedRequest(users, @)]
    /\ UNCHANGED << intent_patterns, entity_patterns, pc, user_input, user_id,
                    classified, classified_intent, refined_again, mapping_result,
                    raised, first_call, calls, intent_scores, tool_called,
                    execution_result, callers, tasks, response, _tasks, _next_id,
                    last_call >>

NextRegister == CheckExisting \/ InsertUser

SpecRegister == InitRegister /\ [][NextRegister]_vars

(***************************************************************************)
(* Properties                                                              *)
(***************************************************************************)
Blank(text) == \A i \in 1..Len(text) : IsSpace(text[i])

Classified == pc \in {"classified", "refined", "routed", "returned"}
Refined == pc \in {"refined", "routed", "returned"}
Routed == pc = "routed"

\* C1: route_to_tool returns a ToolMappingResult for every input and never
\* raises, also when a mapper fails; a result with success = false carries
\* both an error and a message.
C1_RouteNeverRaises ==
  Routed =>
    /\ ~raised
    /\ ~mapping_result.success =>
         mapping_result.error # None /\ mapping_result.message # None

\* a mapper failed on a list-valued title and the failure came back as a result
C1_Witness ==
  /\ Routed
  /\ classified_intent.intent = "update_task"
  /\ "title" \in DOMAIN classified_intent.entities
  /\ classified_intent.entities["title"].t = "list"
  /\ ~mapping_result.success
  /\ mapping_result.error = Format("Error routing to tool: ", Text("AttributeError"))

\* C2: an empty or whitespace-only input is classified as unknown with
\* confidence 0.0 and no entities, by the classifier and by classify_intent.
C2_BlankInputIsUnknown ==
  Blank(user_input) =>
    /\ Classified =>
         /\ classified.intent = "unknown"
         /\ classified.confidence = 0
         /\ classified.entities = EmptyDict
    /\ Refined =>
         /\ classified_intent.intent = "unknown"
         /\ classified_intent.confidence = 0
         /\ classified_intent.entities = EmptyDict

\* a text of blanks only has been classified
C2_Witness ==
  /\ Refined
  /\ user_input = <<SP, SP>>
  /\ classified_intent.intent = "unknown"

\* C3: the confidence of every classification, refined or not, lies
\* between 0.0 and 1.0.
C3_ConfidenceInRange ==
  /\ Classified => classified.confidence \in 0..MaxConfidence
  /\ Refined => classified_intent.confidence \in 0..MaxConfidence

\* a score above 1.0 has been cut down to 1.0
C3_Witness ==
  /\ Refined
  /\ classified.intent = "add_task"
  /\ calculate_intent_score(Strip(Lower(user_input)), intent_patterns[1].patterns)
       > MaxConfidence
  /\ classified_intent.confidence = MaxConfidence

\* C4: a call of classify_intent on the text of the first call of the run
\* returns what the first call returned, whatever was classified in between.
C4_Deterministic ==
  (Refined /\ first_call.made /\ first_call.text = user_input) =>
    /\ classified = first_call.raw
    /\ classified_intent = first_call.result

\* the third call of a run repeats the text of the first
C4_Witness ==
  /\ pc = "refined"
  /\ calls = 3
  /\ first_call.made
  /\ first_call.text = user_input
  /\ classified_intent.intent = "add_task"

\* C5: original_text is the caller's text as it came, on every path and
\* after refinement, and the rest of what the classifier returns is what
\* the case-folded, stripped text gives.
C5_OriginalTextKept ==
  /\ Classified => classified.original_text = user_input
  /\ (pc = "classified" /\ Strip(Lower(user_input)) # user_input) =>
       LET normal == IntentClassifier_classify_intent(Strip(Lower(user_input)))
       IN  /\ classified.intent = normal.intent
           /\ classified.confidence = normal.confidence
           /\ classified.entities = normal.entities
  /\ Refined => classified_intent.original_text = user_input

\* a text with a capital and blanks around it went down the normal path
C5_Witness ==
  /\ Refined
  /\ user_input = <<SP, "Add", SP, "task", SP, "to", SP>>
  /\ classified_intent.intent = "add_task"
  /\ classified_intent.original_text # Strip(Lower(user_input))

\* C6: refining a refined result changes nothing.
C6_RefineIdempotent ==
  pc = "refined_again" => refined_again = classified_intent

\* the first refinement turned an unknown intent with a title into add_task
C6_Witness ==
  /\ pc = "refined_again"
  /\ classified.intent = "unknown"
  /\ classified_intent.intent = "add_task"
  /\ refined_again.intent = "add_task"

\* C7: an unknown intent with a title becomes add_task with confidence 0.8;
\* otherwise an unknown intent with a date, priority or category becomes
\* update_task with confidence 0.7; everything else comes back unchanged.
C7_RefineRules ==
  pc = "refined" =>
    IF classified.intent = "unknown" /\ "title" \in DOMAIN classified.entities
    THEN classified_intent =
           [classified EXCEPT !.intent = "add_task", !.confidence = AddTaskConfidence]
    ELSE IF /\ classified.intent = "unknown"
            /\ {"date", "priority", "category"} \cap DOMAIN classified.entities # {}
    THEN classified_intent =
           [classified EXCEPT !.intent = "update_task", !.confidence = UpdateTaskConfidence]
    ELSE classified_intent = classified

\* an unknown intent with a title and a date became add_task, not update_task
C7_Witness ==
  /\ pc = "refined"
  /\ classified.intent = "unknown"
  /\ {"title", "date"} \subseteq DOMAIN classified.entities
  /\ classified_intent.intent = "add_task"
  /\ classified_intent.confidence = AddTaskConfidence

\* C8: every routing of an add_task intent succeeds, names the add_task
\* tool and carries a title that is not empty.
C8_AddTaskHasTitle ==
  (Routed /\ classified_intent.intent = "add_task") =>
    /\ mapping_result.success
    /\ mapping_result.tool_name = Text("add_task")
    /\ Truthy(mapping_result.tool_parameters["title"])

\* the add_task intents that have no title entity and whose text the
\* router's own pattern does not match
NoTitleFound ==
  /\ Routed
  /\ classified_intent.intent = "add_task"
  /\ "title" \notin DOMAIN classified_intent.entities
  /\ ~Search(AddTaskTitlePattern.re, classified_intent.original_text).found

\* C9 as stated: the title of last resort is the normalized text.
C9_TitleIsNormalizedText ==
  NoTitleFound =>
    mapping_result.tool_parameters["title"] = Str(Strip(Lower(user_input)))

\* C9 amended: the title of last resort is the caller's text as it came.
C9_TitleIsOriginalText ==
  NoTitleFound => mapping_result.tool_parameters["title"] = Str(user_input)

\* the whole text, capital included, is the title
C9_Witness ==
  /\ NoTitleFound
  /\ user_input = <<"should", SP, "Milk">>
  /\ mapping_result.tool_parameters["title"] = Str(<<"should", SP, "Milk">>)

\* C10: routing add_task sets priority to medium and category to general
\* when the entity is missing, and due_date exactly when there is a date.
C10_AddTaskDefaults ==
  (Routed /\ classified_intent.intent = "add_task") =>
    LET entities == classified_intent.entities
        params == mapping_result.tool_parameters
    IN  /\ "priority" \notin DOMAIN entities => params["priority"] = Str(<<"medium">>)
        /\ "category" \notin DOMAIN entities => params["category"] = Str(<<"general">>)
        /\ "due_date" \in DOMAIN params <=> "date" \in DOMAIN entities
        /\ "date" \in DOMAIN entities => params["due_date"] = entities["date"]

\* an add_task with a date and neither priority nor category
C10_Witness ==
  /\ Routed
  /\ classified_intent.intent = "add_task"
  /\ DOMAIN classified_intent.entities = {"title", "date"}
  /\ mapping_result.tool_parameters["due_date"] = Str(<<"tomorrow">>)
  /\ mapping_result.tool_parameters["priority"] = Str(<<"medium">>)

\* C11: routing a list_tasks intent succeeds, names the list_tasks tool,
\* sets status = all, limit = 50 and offset = 0, and carries priority or
\* category only when that entity was extracted.
C11_ListTasksDefaults ==
  (Routed /\ classified_intent.intent = "list_tasks") =>
    LET entities == classified_intent.entities
        params == mapping_result.tool_parameters
    IN  /\ mapping_result.success
        /\ mapping_result.tool_name = Text("list_tasks")
        /\ {"status", "limit", "offset"} \subseteq DOMAIN params
        /\ params["status"] = Str(<<"all">>)
        /\ params["limit"] = [t |-> "int", v |-> 50]
        /\ params["offset"] = [t |-> "int", v |-> 0]
        /\ "priority" \in DOMAIN params => "priority" \in DOMAIN entities
        /\ "category" \in DOMAIN params => "category" \in DOMAIN entities

\* a listing with a priority filter and no category
C11_Witness ==
  /\ Routed
  /\ classified_intent.intent = "list_tasks"
  /\ user_input = <<"my", SP, "task", "s", SP, "urgent">>
  /\ mapping_result.tool_parameters["priority"] = Str(<<"urgent">>)
  /\ "category" \notin DOMAIN mapping_result.tool_parameters

\* C12: a complete_task, delete_task or update_task intent with neither a
\* task_id nor a title is answered with success = false, a question about
\* which task is meant and no tool name, and nothing is raised.
C12_MissingTaskAsksBack ==
  (/\ Routed
   /\ classified_intent.intent \in {"complete_task", "delete_task", "update_task"}
   /\ {"task_id", "title"} \cap DOMAIN classified_intent.entities = {}) =>
    /\ ~raised
    /\ ~mapping_result.success
    /\ mapping_result.tool_name = None
    /\ \E verb \in {"complete", "delete", "update"} :
         /\ classified_intent.intent = verb \o "_task"
         /\ mapping_result.message = Text("Which task would you like to " \o verb \o "?")

\* a deletion that names no task
C12_Witness ==
  /\ Routed
  /\ user_input = <<"delete", SP, "task", SP>>
  /\ classified_intent.intent = "delete_task"
  /\ classified_intent.entities = EmptyDict
  /\ mapping_result.message = Text("Which task would you like to delete?")

\* C13: a help intent routes to success = true with the help tool and its
\* fixed payload; an unknown intent routes to success = false with the
\* message that the request was not understood and no tool name.
C13_HelpAndUnknown ==
  Routed =>
    /\ classified_intent.intent = "help" =>
         /\ mapping_result.success
         /\ mapping_result.tool_name = Text("help")
         /\ mapping_result.tool_parameters =
              [key \in {"message", "user_id"} |->
                 IF key = "message" THEN Text("help") ELSE Text(user_id)]
    /\ classified_intent.intent = "unknown" =>
         /\ ~mapping_result.success
         /\ mapping_result.tool_name = None
         /\ mapping_result.message =
              Text("I didn't understand your request. Could you rephrase it?")
         /\ mapping_result.error =
              Format("Could not understand intent: ", Text("unknown"))

\* a text that no pattern matches was routed
C13_Witness ==
  /\ Routed
  /\ user_input = <<"Milk">>
  /\ classified_intent.intent = "unknown"
  /\ ~mapping_result.success

\* a str, or a list whose items are all str
IsStrOrStrList(x) ==
  \/ IsStr(x)
  \/ x.t = "list" /\ \A i \in 1..Len(x.v) : IsStr(x.v[i])

\* C19: every value of the entities of a classification is a string or a
\* list of strings.
C19_EntitiesAreStrings ==
  Classified =>
    \A key \in DOMAIN classified.entities : IsStrOrStrList(classified.entities[key])

\* best_score: the largest of the scores in intent_scores
BestScore == intent_scores[BestIndex(intent_scores, Len(intent_scores))]

\* C20: when the best score is below the threshold, the classifier returns
\* unknown with that score as confidence and no entities, whatever the
\* entity patterns would find in the text.
C20_BelowThresholdIsUnknown ==
  (pc = "classified" /\ intent_scores # << >> /\ BestScore < Threshold) =>
    classified = ClassifiedIntent("unknown", BestScore, EmptyDict, user_input)

\* a text with a date in it and no intent: the date is not extracted
C20_Witness ==
  /\ pc = "classified"
  /\ user_input = <<"tomorrow">>
  /\ intent_scores # << >>
  /\ BestScore < Threshold
  /\ "date" \in DOMAIN extract_entities(Strip(Lower(user_input)))
  /\ classified.intent = "unknown"
  /\ classified.entities = EmptyDict

\* the textual form of a UUID: 8-4-4-4-12 hexadecimal digits
IsCanonical(s) ==
  /\ Len(s) = 9
  /\ \A i \in {2, 4, 6, 8} : s[i] = DASH
  /\ \A i \in {1, 3, 5, 7, 9} : PieceKind(s[i]) = "hex"
  /\ <<PieceLen(s[1]), PieceLen(s[3]), PieceLen(s[5]), PieceLen(s[7]), PieceLen(s[9])>>
       = <<8, 4, 4, 4, 12>>

\* a valid UUID: the canonical form, or one of the forms the documentation
\* of uuid.UUID names (in braces, as a URN, without the hyphens)
IsValidUUID(s) ==
  \/ IsCanonical(s)
  \/ Len(s) > 2 /\ s[1] = "{" /\ s[Len(s)] = "}" /\ IsCanonical(SubSeq(s, 2, Len(s) - 1))
  \/ Len(s) > 2 /\ s[1] = "urn:" /\ s[2] = "uuid:" /\ IsCanonical(SubSeq(s, 3, Len(s)))
  \/ (\A i \in 1..Len(s) : PieceKind(s[i]) = "hex") /\ CharLen(s) = 32

ByIdTools == {"complete_task", "delete_task", "update_task"}

\* C15: complete_task, delete_task and update_task answer a task_id that is
\* no valid UUID with an error result, never with a success result.
C15_InvalidIdIsError ==
  (/\ pc = "executed"
   /\ tool_called \in ByIdTools
   /\ ~IsValidUUID(mapping_result.tool_parameters["task_id"].v))
    => execution_result.error # "None"

\* C16: for a mapping result with success=false execute_mapped_tool returns
\* success=false with the error and the message of the mapping and hands the
\* parameters to no tool; nothing is raised.
C16_FailedMappingNotExecuted ==
  (pc = "executed" /\ ~mapping_result.success) =>
    /\ execution_result = ExecutionFailure(mapping_result.error, mapping_result.message)
    /\ tool_called = ""
    /\ ~raised

\* the router asks back which task to delete and the question is passed on
C16_Witness ==
  /\ pc = "executed"
  /\ user_input = <<"delete", SP, "task", SP>>
  /\ ~mapping_result.success
  /\ execution_result.success = FALSE
  /\ execution_result.error = Text("Please specify which task to delete.")
  /\ execution_result.message = Text("Which task would you like to delete?")
  /\ tool_called = ""

\* C18: a pattern that does not compile makes the construction of the
\* classifier fail; it is never first met by a later call.
C18_InvalidPatternFailsAtStartup ==
  /\ pc \notin {"unbuilt", "construction_failed"} =>
       AllCompile(intent_patterns) /\ AllCompile(entity_patterns)
  /\ pc # "raised"

\* C17: classification and routing leave the pattern tables as __init__
\* built them, and under every interleaving of concurrent calls each call
\* returns what it returns when it runs alone.
C17_ConcurrentCallsIndependent ==
  /\ intent_patterns = InitialIntentPatterns
  /\ entity_patterns = InitialEntityPatterns
  /\ \A c \in DOMAIN callers :
       callers[c].pc = "routed" => callers[c].mapping_result = callers[c].alone

\* the first caller has its result while the second, on another text, is
\* still between classification and refinement
C17_Witness ==
  /\ pc = "concurrent"
  /\ callers[1].pc = "routed"
  /\ callers[1].text = <<"Add", SP, "task", SP, "to", SP, "Milk">>
  /\ callers[1].mapping_result.success
  /\ callers[1].mapping_result = callers[1].alone
  /\ callers[2].pc = "classified"
  /\ callers[2].text = <<"delete", SP, "task", SP>>

ByIdOps ==
  {"get_specific_task", "update_existing_task", "delete_specific_task",
   "toggle_task_status"}

\* the request r is about a task of the table that another user owns
OthersTask(r, table) ==
  /\ r.op \in ByIdOps
  /\ r.task_id \in DOMAIN table
  /\ table[r.task_id].present
  /\ table[r.task_id].user_id # r.user

\* a list holds only tasks of the user who asked; a task is read, updated,
\* toggled or deleted only by its owner
OwnTasksOnly(r, table) ==
  /\ r.op = "get_tasks" =>
       \A task_id \in DOMAIN r.body : r.body[task_id].user_id = r.user
  /\ (r.op \in ByIdOps /\ r.status = 200) => Found(table, r.task_id, r.user)

RefusalStatus(r) ==
  IF r.op = "update_existing_task" /\ r.title # "" /\ BadTitleLength(r.title) THEN 400
  ELSE IF r.op = "update_existing_task" /\ BadTitleLength(r.title) THEN 500
  ELSE 404

Winners(scores) ==
  { n \in 1..Len(scores) : \A m \in 1..Len(scores) : scores[m] <= scores[n] }

\* the first of the places with the largest score
FirstWinner(scores) ==
  CHOOSE n \in Winners(scores) : \A m \in Winners(scores) : n <= m

\* C21: when several intents share the largest score, the intent chosen is
\* the one that comes first in the intent table (add_task, list_tasks,
\* complete_task, delete_task, update_task, help).
C21_TieGoesToFirstInTable ==
  (/\ pc = "classified"
   /\ intent_scores # << >>
   /\ intent_scores[FirstWinner(intent_scores)] >= Threshold) =>
    classified.intent = InitialIntentPatterns[FirstWinner(intent_scores)].intent

\* add_task and help share the largest score for 'should help ' and
\* add_task, the earlier of the two, is returned
C21_Witness ==
  /\ pc = "classified"
  /\ user_input = <<"should", SP, "help", SP>>
  /\ Winners(intent_scores) = {1, 6}
  /\ intent_scores[1] >= Threshold
  /\ classified.intent = "add_task"

\* the places of the patterns of the slot at place n that match the text
MatchingPatterns(n, text) ==
  { i \in 1..Len(entity_patterns[n].patterns) :
      FindAll(entity_patterns[n].patterns[i].re, text) # << >> }

\* the first of the patterns of the slot at place n that match the text
FirstPattern(n, text) ==
  CHOOSE i \in MatchingPatterns(n, text) : \A j \in MatchingPatterns(n, text) : i <= j

\* the value of a slot is made of the matches of one pattern: the match
\* itself for one match, the list of the matches for several
ValueOfPattern(value, entity_type, pattern, text) ==
  LET matches == ProcessedMatches(entity_type, pattern, text, FindAll(pattern.re, text))
  IN  IF Len(matches) = 1 THEN value = matches[1]
      ELSE value.t = "list" /\ value.v = matches

\* C22: for each entity slot only the first pattern, in the listed order,
\* that matches contributes: the slot holds its match when it matched once
\* and the list of its matches otherwise; later patterns are not consulted.
C22_FirstPatternWins ==
  (pc = "classified" /\ classified.intent # "unknown") =>
    \A n \in 1..Len(entity_patterns) :
      MatchingPatterns(n, Strip(Lower(user_input))) # {} =>
        /\ entity_patterns[n].entity_type \in DOMAIN classified.entities
        /\ ValueOfPattern(classified.entities[entity_patterns[n].entity_type],
                          entity_patterns[n].entity_type,
                          entity_patterns[n].patterns[
                            FirstPattern(n, Strip(Lower(user_input)))],
                          Strip(Lower(user_input)))

\* the first and the third title pattern match 'add task to update task x';
\* the title is the match of the first, 'update task x', not the 'x' of the
\* third
C22_Witness ==
  /\ pc = "classified"
  /\ user_input = <<"Add", SP, "task", SP, "to", SP, "update", SP, "task", SP, "x", NL>>
  /\ classified.intent = "update_task"
  /\ {1, 3} \subseteq MatchingPatterns(1, Strip(Lower(user_input)))
  /\ classified.entities["title"] = Str(<<"update", SP, "task", SP, "x">>)


\* ---------------------------------------------------------------------
\* C23: a PUT that succeeds changes only the fields its body supplies; a
\* task whose completed is left out of the body keeps its stored completed
\* (a completed task stays completed when only its title is updated).
\* The code does not do so: TaskBase defaults completed to False and
\* update_task stores it.
C23_UpdateKeepsUnsuppliedFields ==
  [][(/\ response'.op = "update_existing_task"
      /\ response'.status = 200
      /\ response'.completed = "unset") =>
        tasks'[response'.task_id].completed = tasks[response'.task_id].completed]_vars

\* what the code does: a PUT that succeeds stores the body's title and the
\* body's completed, False when the body leaves it out
C23_UpdateStoresDefaultCompleted ==
  [][(response'.op = "update_existing_task" /\ response'.status = 200) =>
       /\ tasks'[response'.task_id].title = response'.title
       /\ tasks'[response'.task_id].completed = (response'.completed = "true")
       /\ \A id \in DOMAIN tasks : id # response'.task_id => tasks'[id] = tasks[id]]_vars

\* a completed task answered 200 to a PUT of a title only, and is not
\* completed any more
C23_Witness ==
  /\ response.op = "update_existing_task"
  /\ response.status = 200
  /\ response.completed = "unset"
  /\ response.title = "Call mom"
  /\ ~tasks[response.task_id].completed


\* ---------------------------------------------------------------------
\* C27: the module-level classify_intent never returns a refined result:
\* an unknown result of IntentClassifier.classify_intent has no entities,
\* so refine_intent_with_entities returns what it is given, and no result
\* reaches the router with confidence 0.8 or 0.7.
C27_PipelineNeverRefines ==
  (pc \in {"refined", "routed"}) =>
    /\ classified.intent = "unknown" => classified.entities = EmptyDict
    /\ classified_intent = classified
    /\ classified_intent.confidence \notin {AddTaskConfidence, UpdateTaskConfidence}

\* an unknown text that holds a date reached the router as it was classified
C27_Witness ==
  /\ pc = "routed"
  /\ user_input = <<"tomorrow">>
  /\ "date" \in DOMAIN extract_entities(Strip(Lower(user_input)))
  /\ classified.intent = "unknown"
  /\ classified_intent = classified
  /\ classified_intent.confidence = 0

\* ---------------------------------------------------------------------
\* C28: the confidence IntentClassifier.classify_intent returns is exactly
\* 0.0 or exactly 1.0: each intent scores 0 or at least 2.0, no score lies
\* strictly between 0 and 1.
C28_ConfidenceIsZeroOrOne ==
  (pc = "classified") =>
    /\ classified.confidence \in {0, MaxConfidence}
    /\ \A n \in 1..Len(intent_scores) :
         intent_scores[n] = 0 \/ intent_scores[n] >= 2 * MaxConfidence

\* a known intent with confidence 1.0 next to intents that score 0
C28_Witness ==
  /\ pc = "classified"
  /\ classified.intent # "unknown"
  /\ classified.confidence = MaxConfidence
  /\ \E n \in 1..Len(intent_scores) : intent_scores[n] = 0
  /\ \E n \in 1..Len(intent_scores) : intent_scores[n] >= 2 * MaxConfidence

\* an unknown text: every intent scores 0 and the confidence is 0.0
C28_WitnessZero ==
  /\ pc = "classified"
  /\ user_input # << >>
  /\ intent_scores # << >>
  /\ \A n \in 1..Len(intent_scores) : intent_scores[n] = 0
  /\ classified.confidence = 0


\* ---------------------------------------------------------------------
\* C25: no utterance handed to route_and_execute_tool ends in a successful
\* complete_task, delete_task or update_task: the classifier extracts no
\* task_id entity, the routed task_id is the 'placeholder-id-for-...' made
\* from the title, and the tools refuse it as an invalid task ID.
C25_NoUtteranceExecutesById ==
  (pc = "executed" /\ user_input # << >>) =>
    /\ "task_id" \notin DOMAIN classified_intent.entities
    /\ tool_called \in ByIdTools =>
         /\ Head(mapping_result.tool_parameters["task_id"].v) = "placeholder-id-for-"
         /\ execution_result = ToolError("Invalid task ID format")

\* 'complete task x' went to complete_task_tool with the placeholder of its
\* title and was refused
C25_Witness ==
  /\ pc = "executed"
  /\ user_input # << >>
  /\ classified_intent.intent = "complete_task"
  /\ tool_called = "complete_task"
  /\ Head(mapping_result.tool_parameters["task_id"].v) = "placeholder-id-for-"
  /\ execution_result = ToolError("Invalid task ID format")


\* ---------------------------------------------------------------------
\* C26: for every utterance routed to add_task the parameters of the router
\* pass the validation of the add_task tool and the execution succeeds: the
\* priority is low, medium or high and the due_date, when there is one, is
\* an ISO-8601 date.
C26_AddTaskExecutes ==
  (/\ pc = "executed"
   /\ user_input # << >>
   /\ mapping_result.success
   /\ mapping_result.tool_name = Text("add_task")) =>
    /\ tool_called = "add_task"
    /\ ~BadPriority(mapping_result.tool_parameters["priority"])
    /\ "due_date" \in DOMAIN mapping_result.tool_parameters =>
         IsIsoFormat(mapping_result.tool_parameters["due_date"].v)
    /\ execution_result = ToolContent("created successfully")

\* an utterance with a date word: routed to add_task with due_date
\* 'tomorrow', which add_task_tool refuses
C26_Witness ==
  /\ pc = "executed"
  /\ user_input # << >>
  /\ tool_called = "add_task"
  /\ "due_date" \in DOMAIN mapping_result.tool_parameters
  /\ mapping_result.tool_parameters["due_date"] = Str(<<"tomorrow">>)
  /\ execution_result =
       ToolError("Invalid due_date format. Use ISO 8601 format (YYYY-MM-DDTHH:mm:ss.sssZ).")


\* ---------------------------------------------------------------------
\* the methods of TaskManager that take the id of a stored task
ByIdMethods == {"get_task", "update_task", "toggle_complete", "delete_task"}
BlankTitle(title) == title # None /\ Strip(title.v) = << >>
NotStored(list, task_id) == \A i \in 1..Len(list) : list[i].id # task_id

\* the calls that have to raise ValueError, for the manager before the call
HasToRaise(call, list) ==
  \/ call.op \in {"add_task", "update_task"} /\ BlankTitle(call.title)
  \/ call.op \in ByIdMethods /\ NotStored(list, call.task_id)

\* C24: in the TaskManager, add_task with a title that is blank after
\* stripping, update_task with a blank new title, and get_task,
\* update_task, toggle_complete or delete_task with an id that is not
\* stored raise ValueError and leave the task list, every stored task and
\* the next-id counter as they were.
C24_ErrorsLeaveManagerUnchanged ==
  [][/\ HasToRaise(last_call', _tasks) => last_call'.raised
     /\ last_call'.raised => (_tasks' = _tasks /\ _next_id' = _next_id)]_vars

\* update_task of a stored task with the new title ' ' raised, after a call
\* of another kind
C24_Witness ==
  /\ last_call.op = "update_task"
  /\ last_call.raised
  /\ last_call.title = Str(<<SP>>)
  /\ ~NotStored(_tasks, last_call.task_id)
  /\ _next_id = Len(_tasks) + 1

\* the ids of the list go up, and all of them were handed out
InCreationOrder(list, next_id) ==
  /\ \A i \in 1..(Len(list) - 1) : list[i].id < list[i + 1].id
  /\ \A i \in 1..Len(list) : list[i].id \in 1..(next_id - 1)

\* C29: in the TaskManager, after any sequence of add, update, toggle and
\* delete all stored tasks have distinct ids, the ids are handed out in
\* strictly increasing order from 1 on, the id of a deleted task is not
\* handed out again, and list_tasks returns the tasks in the order of
\* their creation, which is that of their ids.
C29_IdsIncreaseAndNeverReused ==
  [][/\ _next_id' >= _next_id
     /\ (last_call'.op = "add_task" /\ ~last_call'.raised) =>
          /\ last_call'.value[1].id = _next_id
          /\ _next_id' = _next_id + 1
          /\ _tasks' = Append(_tasks, last_call'.value[1])
     /\ (_tasks = << >> /\ _next_id = 1) => \A i \in 1..Len(_tasks') : _tasks'[i].id = 1
     /\ InCreationOrder(_tasks', _next_id')
     /\ last_call'.op = "list_tasks" => last_call'.value = _tasks]_vars

\* task 1 was deleted and the task added after it has the id 2
C29_Witness ==
  /\ last_call.op = "add_task"
  /\ ~last_call.raised
  /\ Len(_tasks) = 1
  /\ _tasks[1].id = 2
  /\ _next_id = 3


\* ---------------------------------------------------------------------
\* the requests with an email that were answered with a status
Answered(email, status) ==
  { r \in DOMAIN requests :
      /\ requests[r].email = email
      /\ requests[r].at = "answered"
      /\ requests[r].status = status }

\* C30: for any interleaving of registration requests with the same email
\* at most one user with that email is created and every other request is
\* rejected with 409 'Email already registered'.
C30_DuplicateEmailIs409 ==
  \A email \in Emails :
    /\ Cardinality({ i \in 1..Len(users) : users[i] = email }) <= 1
    /\ Cardinality(Answered(email, 200)) <= 1
    /\ \A r \in DOMAIN requests :
         (requests[r].email = email /\ requests[r].at = "answered") =>
           requests[r].status \in {200, 409}

\* what the code keeps: no email is stored twice and no two requests with
\* one email are answered 200
C30_AtMostOneUser ==
  \A email \in Emails :
    /\ Cardinality({ i \in 1..Len(users) : users[i] = email }) <= 1
    /\ Cardinality(Answered(email, 200)) <= 1

\* two requests with one email both passed the check; one was created, the
\* other one failed at the commit and was answered 500
C30_Witness ==
  \E email \in Emails :
    /\ Answered(email, 200) # {}
    /\ Answered(email, 500) # {}

=============================================================================
